---- MODULE Spec2Model ----
(***************************************************************************)
(* Model of the AI SAAS content-analyzer extension: the background         *)
(* AIService (content cache + fixed-window rate limiter in front of the    *)
(* analysis backend), and the popup that talks to it.                      *)
(***************************************************************************)
EXTENDS Integers, Sequences, FiniteSets, Bags, TLC

VARIABLES
    pages,        \* the page texts (mainContent) that are analysed in this session
    now,          \* Date.now(), in ms since the service worker was constructed
    rateLimiter,  \* AIService.rateLimiter : Map<string, RateLimitEntry>
    cache,        \* AIService.cache : Map<string, {data, timestamp}>
    inflight,     \* handleContentAnalysis calls suspended at `await simulateAIAnalysis`
    ev,           \* the last step of a handleContentAnalysis call and what it returned/threw
    admits,       \* Date.now() of the admissions by checkRateLimit in the last 60 seconds
    stored,       \* per text: when it was last submitted, what its last cache-miss call returned
    run,          \* the current run of calls made with one text
    plan,         \* a list of texts to analyse in turn, and how far it has been carried out
    duo,          \* two calls with one text, the second made while the first awaits the backend
    popup,        \* the popup: its React state and where analyzeCurrentPage stands
    storage,      \* ExtensionStorage: the stored analysis of the tab's url, lastAnalyzedUrl
    wire,         \* ANALYZE_CONTENT messages on their way, being handled, and answered
    script,       \* the content script: its debounce timer and the browser's pending timers
    sender        \* a call of ExtensionUtils.sendMessage or sendTabMessage on its own

coordVars == <<pages, now, rateLimiter, cache, inflight, ev>>
ghostVars == <<admits, stored, run, plan, duo>>
uiVars == <<popup, storage, wire, script, sender>>
vars == <<pages, now, rateLimiter, cache, inflight, ev, admits, stored, run, plan, duo,
          popup, storage, wire, script, sender>>

(***************************************************************************)
(* Program constants                                                       *)
(***************************************************************************)
RATE_LIMIT == 10
CACHE_DURATION == 5 * 60 * 1000
RATE_WINDOW == 60000
userKey == "default_user"
RateLimitMessage == "Rate limit exceeded. Please wait before making another request."
\* what a failed backend call throws: a response that is not ok, a rejected fetch
BackendErrors == {"Backend error: 500", "Failed to fetch"}

\* ExtensionUtils.sendMessage: options.retries
retries == 2
\* what the popup can show in state.error
NoTabMessage == "No active tab found"
TimeoutMessage == "Message timeout"
ContextMessage == "Extension was reloaded. Please try again."
ContentScriptMessage == "Content script not ready. Please refresh the page and try again."
TabTimeoutMessage == "Tab message timeout"
\* what handleContentAnalysis(undefined) throws when it reads data.mainContent
TypeErrorMessage == "Cannot read properties of undefined (reading 'mainContent')"
\* what a failed storage.set throws
StorageErrorMessage == "QUOTA_BYTES quota exceeded"
Null == "null"
Undefined == "undefined"

(***************************************************************************)
(* Bounds of the model                                                     *)
(***************************************************************************)
MaxInflight == 2   \* calls that may be waiting for the backend at once
MaxFine == 1       \* the clock is followed millisecond by millisecond from 0 to MaxFine
MaxQuiet == 2      \* the content script is followed for MaxQuiet debounce delays
MaxTimers == 3     \* calls of setTimeout by the content script
MaxRetries == 2    \* options.retries of a call of sendMessage or sendTabMessage on its own
MaxText == 5       \* code units of a text given to generateContentHash on its own

(***************************************************************************)
(* generateContentHash: a text is the sequence of its UTF-16 code units.   *)
(* The 32-bit arithmetic is carried out on two 16-bit limbs <<hi, lo>> of  *)
(* the two's-complement bit pattern.                                       *)
(***************************************************************************)
Limb == 65536

\* the bit pattern of (x << 5)
Shl5(x) ==
    LET lo32 == x[2] * 32
    IN  <<(x[1] * 32 + lo32 \div Limb) % Limb, lo32 % Limb>>

\* the low 32 bits of a - b
Sub32(a, b) ==
    LET lo == a[2] - b[2]
        borrow == IF lo < 0 THEN 1 ELSE 0
    IN  <<(a[1] - b[1] - borrow) % Limb, lo % Limb>>

\* the low 32 bits of a + c, for a code unit c
Add32(a, c) ==
    LET lo == a[2] + c
    IN  <<(a[1] + lo \div Limb) % Limb, lo % Limb>>

\* the signed 32-bit integer with bit pattern x (the result of hash & hash)
ToInt32(x) ==
    IF x[1] >= Limb \div 2 THEN (x[1] - Limb) * Limb + x[2] ELSE x[1] * Limb + x[2]

\* mutant: the subtraction is left out, hash = (hash << 5) + char
HashStep_ShiftOnly(h, char) == Add32(Shl5(h), char)

\* one iteration of the loop: hash = ((hash << 5) - hash) + char; hash = hash & hash
HashStep(h, char) == Add32(Sub32(Shl5(h), h), char)

RECURSIVE HashBits(_, _)
HashBits(content, i) ==
    IF i = 0 THEN <<0, 0>> ELSE HashStep(HashBits(content, i - 1), content[i])

generateContentHash(content) == ToString(ToInt32(HashBits(content, Len(content))))

(***************************************************************************)
(* Inputs: the mainContent of the ExtractedData sent with ANALYZE_CONTENT  *)
(***************************************************************************)
TextAa == <<65, 97>>                 \* "Aa"
TextBB == <<66, 66>>                 \* "BB": same hash as "Aa"
TextHello == <<104, 101, 108, 108, 111, 32, 119, 111, 114, 108, 100>>  \* "hello world"
Texts == {TextAa, TextBB, TextHello}

\* a session analyses two pages: two with colliding hashes, or two with different hashes
Sessions == {{TextAa, TextBB}, {TextAa, TextHello}}

\* eleven pairwise different texts of one letter, "a" to "k"; the hash of a one-letter
\* text is its code unit, so their hashes are pairwise different too
Letters == [i \in 1..(RATE_LIMIT + 1) |-> <<96 + i>>]

\* lists of RATE_LIMIT + 1 pairwise different texts: the letters, and the letters
\* with "Aa" and "BB" in place of two of them
Plans ==
    {Letters,
     [Letters EXCEPT ![1] = TextAa, ![2] = TextBB],
     [Letters EXCEPT ![RATE_LIMIT] = TextAa, ![RATE_LIMIT + 1] = TextBB]}

DistinctTexts(texts) ==
    \A i, j \in DOMAIN texts : i # j => texts[i] # texts[j]
DistinctHashes(texts) ==
    \A i, j \in DOMAIN texts :
        i # j => generateContentHash(texts[i]) # generateContentHash(texts[j])
DistinctTextPlans == {texts \in Plans : DistinctTexts(texts)}
DistinctHashPlans == {texts \in Plans : DistinctHashes(texts)}

\* what the backend can answer: ContentAnalysis payloads
Analyses == {"analysisA", "analysisB"}

NoEvent == [kind |-> "none"]

(***************************************************************************)
(* checkRateLimit(): the limiter after the call and whether it admitted    *)
(***************************************************************************)
\* mutant: stale entries are never removed
CleanOldEntries_KeepsStale(rl, t) == rl

\* the "Clean old entries" loop
CleanOldEntries(rl, t) ==
    [k \in {key \in DOMAIN rl : ~(rl[key].timestamp < t - RATE_WINDOW)} |-> rl[k]]

\* mutant: the limit test is count > RATE_LIMIT
checkRateLimit_OffByOne(rl, t) ==
    LET cleaned == CleanOldEntries(rl, t)
    IN  IF userKey \notin DOMAIN cleaned
        THEN [admitted |-> TRUE,
              limiter |-> (userKey :> [timestamp |-> t, count |-> 1])]
        ELSE IF cleaned[userKey].count > RATE_LIMIT
        THEN [admitted |-> FALSE, limiter |-> cleaned]
        ELSE [admitted |-> TRUE,
              limiter |-> [cleaned EXCEPT ![userKey].count = @ + 1]]

\* mutant: the count is incremented before the limit test, so a rejection counts too
checkRateLimit_CountsRejected(rl, t) ==
    LET cleaned == CleanOldEntries(rl, t)
    IN  IF userKey \notin DOMAIN cleaned
        THEN [admitted |-> TRUE,
              limiter |-> (userKey :> [timestamp |-> t, count |-> 1])]
        ELSE [admitted |-> cleaned[userKey].count < RATE_LIMIT,
              limiter |-> [cleaned EXCEPT ![userKey].count = @ + 1]]

\* mutant: an admission in an active window also moves the window's timestamp
checkRateLimit_Restamps(rl, t) ==
    LET cleaned == CleanOldEntries(rl, t)
    IN  IF userKey \notin DOMAIN cleaned
        THEN [admitted |-> TRUE,
              limiter |-> (userKey :> [timestamp |-> t, count |-> 1])]
        ELSE IF cleaned[userKey].count >= RATE_LIMIT
        THEN [admitted |-> FALSE, limiter |-> cleaned]
        ELSE [admitted |-> TRUE,
              limiter |-> [cleaned EXCEPT ![userKey].count = @ + 1,
                                          ![userKey].timestamp = t]]

\* mutant: the count of an existing entry is not incremented
checkRateLimit_NoIncrement(rl, t) ==
    LET cleaned == CleanOldEntries(rl, t)
    IN  IF userKey \notin DOMAIN cleaned
        THEN [admitted |-> TRUE,
              limiter |-> (userKey :> [timestamp |-> t, count |-> 1])]
        ELSE IF cleaned[userKey].count >= RATE_LIMIT
        THEN [admitted |-> FALSE, limiter |-> cleaned]
        ELSE [admitted |-> TRUE, limiter |-> cleaned]

checkRateLimit(rl, t) ==
    LET cleaned == CleanOldEntries(rl, t)
    IN  IF userKey \notin DOMAIN cleaned
        THEN [admitted |-> TRUE,
              limiter |-> [k \in DOMAIN cleaned \cup {userKey} |->
                             IF k = userKey THEN [timestamp |-> t, count |-> 1]
                             ELSE cleaned[k]]]
        ELSE IF cleaned[userKey].count >= RATE_LIMIT
        THEN [admitted |-> FALSE, limiter |-> cleaned]
        ELSE [admitted |-> TRUE,
              limiter |-> [cleaned EXCEPT ![userKey].count = @ + 1]]

\* mutant: an entry is served whatever its age
CacheHit_IgnoresAge(c, contentHash, t) == contentHash \in DOMAIN c

\* the cache lookup of handleContentAnalysis
CacheHit(c, contentHash, t) ==
    /\ contentHash \in DOMAIN c
    /\ (t - c[contentHash].timestamp) < CACHE_DURATION

\* cache.set(contentHash, { data: analysis, timestamp: Date.now() })
CacheSet(c, contentHash, analysis, t) ==
    [h \in DOMAIN c \cup {contentHash} |->
        IF h = contentHash THEN [data |-> analysis, timestamp |-> t] ELSE c[h]]

(***************************************************************************)
(* State after `new AIService()`                                           *)
(***************************************************************************)
CoordInit ==
    /\ pages \in Sessions
    /\ now = 0
    /\ rateLimiter = <<>>
    /\ cache = <<>>
    /\ inflight = EmptyBag
    /\ ev = NoEvent

\* mutant: the backend call is started before the rate limit has been checked, so a
\* rejected call has started one too
handleContentAnalysis_BackendFirst(data) ==
    LET contentHash == generateContentHash(data.mainContent)
        limit == checkRateLimit(rateLimiter, now)
    IN  IF CacheHit(cache, contentHash, now)
        THEN /\ ev' = [kind |-> "hit", text |-> data.mainContent,
                       value |-> cache[contentHash].data]
             /\ UNCHANGED <<pages, now, rateLimiter, cache, inflight>>
        ELSE /\ BagCardinality(inflight) < MaxInflight
             /\ rateLimiter' = limit.limiter
             /\ inflight' = inflight (+) SetToBag({[data |-> data, contentHash |-> contentHash]})
             /\ ev' = IF limit.admitted
                      THEN [kind |-> "admitted", text |-> data.mainContent,
                            limiterBefore |-> rateLimiter]
                      ELSE [kind |-> "rejected", text |-> data.mainContent,
                            value |-> RateLimitMessage]
             /\ UNCHANGED <<pages, now, cache>>

\* mutant: the rate limit is checked before the cache is looked up
handleContentAnalysis_LimiterFirst(data) ==
    LET contentHash == generateContentHash(data.mainContent)
        limit == checkRateLimit(rateLimiter, now)
    IN  IF ~limit.admitted
        THEN /\ rateLimiter' = limit.limiter
             /\ ev' = [kind |-> "rejected", text |-> data.mainContent,
                       value |-> RateLimitMessage]
             /\ UNCHANGED <<pages, now, cache, inflight>>
        ELSE IF CacheHit(cache, contentHash, now)
        THEN /\ rateLimiter' = limit.limiter
             /\ ev' = [kind |-> "hit", text |-> data.mainContent,
                       value |-> cache[contentHash].data]
             /\ UNCHANGED <<pages, now, cache, inflight>>
        ELSE /\ BagCardinality(inflight) < MaxInflight
             /\ rateLimiter' = limit.limiter
             /\ inflight' = inflight (+) SetToBag({[data |-> data, contentHash |-> contentHash]})
             /\ ev' = [kind |-> "admitted", text |-> data.mainContent,
                       limiterBefore |-> rateLimiter]
             /\ UNCHANGED <<pages, now, cache>>

(***************************************************************************)
(* handleContentAnalysis(data), up to its return, its throw or its await   *)
(***************************************************************************)
handleContentAnalysis(data) ==
    LET contentHash == generateContentHash(data.mainContent)
        limit == checkRateLimit(rateLimiter, now)
    IN  IF CacheHit(cache, contentHash, now)
        THEN \* return cached.data
             /\ ev' = [kind |-> "hit", text |-> data.mainContent,
                       value |-> cache[contentHash].data]
             /\ UNCHANGED <<pages, now, rateLimiter, cache, inflight>>
        ELSE IF ~limit.admitted
        THEN \* throw new Error('Rate limit exceeded...')
             /\ rateLimiter' = limit.limiter
             /\ ev' = [kind |-> "rejected", text |-> data.mainContent,
                       value |-> RateLimitMessage]
             /\ UNCHANGED <<pages, now, cache, inflight>>
        ELSE \* await this.simulateAIAnalysis(data)
             /\ BagCardinality(inflight) < MaxInflight
             /\ rateLimiter' = limit.limiter
             /\ inflight' = inflight (+) SetToBag({[data |-> data, contentHash |-> contentHash]})
             /\ ev' = [kind |-> "admitted", text |-> data.mainContent,
                       limiterBefore |-> rateLimiter]
             /\ UNCHANGED <<pages, now, cache>>

\* mutant: an existing entry gets the new data but keeps its old timestamp
AnalysisReturns_PartialWrite(call, analysis) ==
    /\ BagIn(call, inflight)
    /\ cache' = IF call.contentHash \in DOMAIN cache
                THEN [cache EXCEPT ![call.contentHash].data = analysis]
                ELSE CacheSet(cache, call.contentHash, analysis, now)
    /\ inflight' = inflight (-) SetToBag({call})
    /\ ev' = [kind |-> "resolved", text |-> call.data.mainContent, value |-> analysis]
    /\ UNCHANGED <<pages, now, rateLimiter>>

\* mutant: an entry that is still valid is not overwritten
AnalysisReturns_KeepsFirst(call, analysis) ==
    /\ BagIn(call, inflight)
    /\ cache' = IF CacheHit(cache, call.contentHash, now) THEN cache
                ELSE CacheSet(cache, call.contentHash, analysis, now)
    /\ inflight' = inflight (-) SetToBag({call})
    /\ ev' = [kind |-> "resolved", text |-> call.data.mainContent, value |-> analysis]
    /\ UNCHANGED <<pages, now, rateLimiter>>

\* mutant: the analysis is returned without being stored in the cache
AnalysisReturns_NotStored(call, analysis) ==
    /\ BagIn(call, inflight)
    /\ inflight' = inflight (-) SetToBag({call})
    /\ ev' = [kind |-> "resolved", text |-> call.data.mainContent, value |-> analysis]
    /\ UNCHANGED <<pages, now, rateLimiter, cache>>

(***************************************************************************)
(* The awaited simulateAIAnalysis(data) of a suspended call returns        *)
(* `analysis`: the rest of handleContentAnalysis stores it and returns it  *)
(***************************************************************************)
AnalysisReturns(call, analysis) ==
    /\ BagIn(call, inflight)
    /\ cache' = CacheSet(cache, call.contentHash, analysis, now)
    /\ inflight' = inflight (-) SetToBag({call})
    /\ ev' = [kind |-> "resolved", text |-> call.data.mainContent, value |-> analysis]
    /\ UNCHANGED <<pages, now, rateLimiter>>

(***************************************************************************)
(* The awaited simulateAIAnalysis(data) throws (callSecureBackend: fetch   *)
(* rejects or the response is not ok): handleContentAnalysis rethrows      *)
(***************************************************************************)
\* mutant: a failed backend call gives its admission back
AnalysisThrows_Refunds(call, error) ==
    /\ BagIn(call, inflight)
    /\ inflight' = inflight (-) SetToBag({call})
    /\ ev' = [kind |-> "failed", text |-> call.data.mainContent, value |-> error]
    /\ rateLimiter' = [k \in DOMAIN rateLimiter |->
                         [rateLimiter[k] EXCEPT !.count = IF @ > 1 THEN @ - 1 ELSE @]]
    /\ UNCHANGED <<pages, now, cache>>

AnalysisThrows(call, error) ==
    /\ BagIn(call, inflight)
    /\ inflight' = inflight (-) SetToBag({call})
    /\ ev' = [kind |-> "failed", text |-> call.data.mainContent, value |-> error]
    /\ UNCHANGED <<pages, now, rateLimiter, cache>>

(***************************************************************************)
(* Time passes: Date.now() moves on to a later instant                     *)
(***************************************************************************)
Instants ==
    (0..MaxFine) \cup {RATE_WINDOW, RATE_WINDOW + 1, CACHE_DURATION, CACHE_DURATION + 1}

Elapse(t) ==
    /\ t > now
    /\ now' = t
    /\ ev' = [kind |-> "tick"]
    /\ UNCHANGED <<pages, rateLimiter, cache, inflight>>

(***************************************************************************)
(* History kept beside the program state, for stating properties about     *)
(* more than one call                                                      *)
(***************************************************************************)
CallKinds == {"hit", "rejected", "admitted"}

\* admits: the times of the admissions inside the 60-second span that ends now
\* (the newest RATE_LIMIT + 1 of them)
RecentAdmits(a, t) == SelectSeq(a, LAMBDA x : t - x < RATE_WINDOW)
Newest(a) == IF Len(a) > RATE_LIMIT + 1 THEN Tail(a) ELSE a

ObserveAdmits ==
    admits' = CASE ev'.kind = "admitted" -> Newest(Append(admits, now))
                [] ev'.kind = "tick" -> RecentAdmits(admits, now')
                [] OTHER -> admits

\* stored.of: per text, the analysis (data) and return time (at) of the last
\* cache-miss call with it that returned; forgotten when a call with another text
\* stores under the same hash, and once CACHE_DURATION ms old.
\* stored.calledAt: per text, when the last call with it was made (-1: never, or
\* CACHE_DURATION ms ago or longer).
NotStored == [has |-> FALSE, data |-> "none", at |-> -1]
NothingStored == [of |-> [x \in Texts |-> NotStored], calledAt |-> [x \in Texts |-> -1]]

StoredAfter(text, analysis, t) ==
    [x \in Texts |->
        IF x = text THEN [has |-> TRUE, data |-> analysis, at |-> t]
        ELSE IF generateContentHash(x) = generateContentHash(text) THEN NotStored
        ELSE stored.of[x]]

StoredAt(t) ==
    [of |-> [x \in Texts |->
                IF stored.of[x].has /\ t - stored.of[x].at < CACHE_DURATION
                THEN stored.of[x] ELSE NotStored],
     calledAt |-> [x \in Texts |->
                IF t - stored.calledAt[x] < CACHE_DURATION
                THEN stored.calledAt[x] ELSE -1]]

ObserveStored ==
    stored' = CASE ev'.kind = "resolved" ->
                     [stored EXCEPT !.of = StoredAfter(ev'.text, ev'.value, now)]
                [] ev'.kind \in CallKinds ->
                     [stored EXCEPT !.calledAt[ev'.text] = now]
                [] ev'.kind = "tick" -> StoredAt(now')
                [] OTHER -> stored

\* run: a run of calls with one text. It starts with a call that is admitted while
\* no call is waiting for the backend (call 1) and goes on with every further call:
\*   n           the calls of the run so far, counted up to RATE_LIMIT + 1
\*   limiter     the rate limiter as call 1 left it
\*   returned/at call 1 has returned its analysis, and when
\*   sequential  every later call was made after call 1 had returned, and less than
\*               CACHE_DURATION ms after that
\*   noDelay     no time has passed since call 1 was made
\*   ok          every later call was a cache hit and left the limiter as call 1 left it
\* A run that is neither sequential nor without delay is not followed any further.
NoRun == [n |-> 0]

RunStart(text, limiter) ==
    [n |-> 1, text |-> text, limiter |-> limiter, returned |-> FALSE, at |-> -1,
     sequential |-> TRUE, noDelay |-> TRUE, ok |-> TRUE]

RunCall(kind, limiter, t) ==
    [run EXCEPT !.n = IF @ <= RATE_LIMIT THEN @ + 1 ELSE @,
                !.sequential = @ /\ run.returned /\ t - run.at < CACHE_DURATION,
                !.ok = @ /\ kind = "hit" /\ limiter = run.limiter]

Followed(r) == IF r.n > 0 /\ ~r.sequential /\ ~r.noDelay THEN NoRun ELSE r

ObserveRun ==
    run' = CASE ev'.kind = "admitted" /\ inflight = EmptyBag ->
                  RunStart(ev'.text, rateLimiter')
             [] ev'.kind \in CallKinds /\ ~(ev'.kind = "admitted" /\ inflight = EmptyBag) ->
                  IF run.n > 0 /\ run.text = ev'.text
                  THEN Followed(RunCall(ev'.kind, rateLimiter', now))
                  ELSE NoRun
             [] ev'.kind = "resolved" ->
                  IF run.n > 0 /\ ~run.returned
                  THEN [run EXCEPT !.returned = TRUE, !.at = now]
                  ELSE run
             [] ev'.kind = "failed" ->
                  IF run.n = 1 /\ ~run.returned THEN NoRun ELSE run
             [] ev'.kind = "tick" ->
                  IF run.n > 0 THEN Followed([run EXCEPT !.noDelay = FALSE]) ELSE run
             [] OTHER -> run

\* plan: the texts of a list of calls made in turn, and of the calls made so far:
\*   outcomes    what each did: "hit", "rejected" or "admitted"
\*   firstAt     when the first was made
\*   inWindow    all were made no more than RATE_WINDOW ms after the first
NoPlan == [texts |-> <<>>, outcomes |-> <<>>, firstAt |-> -1, inWindow |-> TRUE]

ObservePlan ==
    plan' = IF ev'.kind \in CallKinds
            THEN LET first == IF plan.firstAt < 0 THEN now ELSE plan.firstAt
                 IN  [plan EXCEPT !.outcomes = Append(@, ev'.kind),
                                  !.firstAt = first,
                                  !.inWindow = @ /\ now - first <= RATE_WINDOW]
            ELSE plan

\* duo: two calls with one text, the first admitted while no call awaited the
\* backend (n = 1), the second made while the first still awaits it (n = 2), at the
\* same instant or later; followed until another call is made:
\*   before      the admissions counted in the window before the first call
\*               (none if there was no entry or a stale one)
\*   reset       the second call found the limiter's entry older than the window
\*   admitted    how many of the two were admitted
\*   pending     how many of them still await the backend
\*   returned    how many have returned an analysis
\*   first       the analysis returned first, and when
\*   last        the analysis returned last, and when
NoDuo == [n |-> 0]
NoResult == [has |-> FALSE, data |-> "none", at |-> -1]

\* the count that checkRateLimit finds at time t: an entry older than the window is dropped
EffectiveCount(rl, t) ==
    IF userKey \in DOMAIN CleanOldEntries(rl, t) THEN rl[userKey].count ELSE 0

ObserveDuo ==
    duo' = CASE ev'.kind \in CallKinds ->
                  IF /\ duo.n = 1
                     /\ duo.text = ev'.text
                     /\ BagCardinality(inflight) = 1
                     /\ ev'.kind # "hit"
                  THEN [n |-> 2, text |-> ev'.text,
                        before |-> duo.before,
                        reset |-> EffectiveCount(rateLimiter, now) = 0,
                        admitted |-> IF ev'.kind = "admitted" THEN 2 ELSE 1,
                        pending |-> IF ev'.kind = "admitted" THEN 2 ELSE 1,
                        returned |-> 0,
                        first |-> NoResult,
                        last |-> NoResult]
                  ELSE IF ev'.kind = "admitted" /\ inflight = EmptyBag
                  THEN [n |-> 1, text |-> ev'.text,
                        before |-> EffectiveCount(rateLimiter, now)]
                  ELSE NoDuo
             [] ev'.kind \in {"resolved", "failed"} /\ duo.n = 1 -> NoDuo
             [] ev'.kind = "resolved" /\ duo.n = 2 ->
                  [duo EXCEPT !.pending = @ - 1, !.returned = @ + 1,
                              !.first = IF duo.returned = 0
                                        THEN [has |-> TRUE, data |-> ev'.value, at |-> now]
                                        ELSE @,
                              !.last = [has |-> TRUE, data |-> ev'.value, at |-> now]]
             [] ev'.kind = "failed" /\ duo.n = 2 ->
                  [duo EXCEPT !.pending = @ - 1]
             [] OTHER -> duo

\* no content script is loaded
NoContent == [loaded |-> FALSE]

\* no call of sendMessage or sendTabMessage is followed on its own
NoSender == [pc |-> "none"]

\* no popup is open, no content script is loaded
NoUi ==
    /\ popup = [pc |-> "closed"]
    /\ storage = [analysis |-> Undefined, lastAnalyzedUrl |-> Undefined]
    /\ wire = [requests |-> EmptyBag, responders |-> EmptyBag, replies |-> {}]
    /\ script = NoContent
    /\ sender = NoSender

(***************************************************************************)
(* The background service: calls arrive, backend calls settle, time passes *)
(***************************************************************************)
Init ==
    /\ CoordInit
    /\ admits = <<>>
    /\ stored = NothingStored
    /\ run = NoRun
    /\ plan = NoPlan
    /\ duo = NoDuo
    /\ NoUi

Analyze ==
    /\ \E text \in pages : handleContentAnalysis([mainContent |-> text])
    /\ UNCHANGED ghostVars
    /\ UNCHANGED uiVars

BackendReturns ==
    /\ \E call \in BagToSet(inflight), analysis \in Analyses : AnalysisReturns(call, analysis)
    /\ UNCHANGED ghostVars
    /\ UNCHANGED uiVars

BackendThrows ==
    /\ \E call \in BagToSet(inflight), error \in BackendErrors : AnalysisThrows(call, error)
    /\ UNCHANGED ghostVars
    /\ UNCHANGED uiVars

Tick ==
    /\ \E t \in Instants : Elapse(t)
    /\ UNCHANGED ghostVars
    /\ UNCHANGED uiVars

Next ==
    \/ Analyze
    \/ BackendReturns
    \/ BackendThrows
    \/ Tick

Spec == Init /\ [][Next]_vars

(***************************************************************************)
(* A session that analyses two pages whose texts have the same hash,       *)
(* recording when each text was last submitted and what its last           *)
(* cache-miss call returned                                                *)
(***************************************************************************)
InitStored ==
    /\ pages = {TextAa, TextBB}
    /\ now = 0
    /\ rateLimiter = <<>>
    /\ cache = <<>>
    /\ inflight = EmptyBag
    /\ ev = NoEvent
    /\ admits = <<>>
    /\ stored = NothingStored
    /\ run = NoRun
    /\ plan = NoPlan
    /\ duo = NoDuo
    /\ NoUi

AnalyzeStored ==
    /\ \E text \in pages : handleContentAnalysis([mainContent |-> text])
    /\ ObserveStored
    /\ UNCHANGED <<admits, run, plan, duo>>
    /\ UNCHANGED uiVars

BackendReturnsStored ==
    /\ \E call \in BagToSet(inflight), analysis \in Analyses : AnalysisReturns(call, analysis)
    /\ ObserveStored
    /\ UNCHANGED <<admits, run, plan, duo>>
    /\ UNCHANGED uiVars

BackendThrowsStored ==
    /\ \E call \in BagToSet(inflight), error \in BackendErrors : AnalysisThrows(call, error)
    /\ ObserveStored
    /\ UNCHANGED <<admits, run, plan, duo>>
    /\ UNCHANGED uiVars

TickStored ==
    /\ \E t \in Instants : Elapse(t)
    /\ ObserveStored
    /\ UNCHANGED <<admits, run, plan, duo>>
    /\ UNCHANGED uiVars

NextStored ==
    \/ AnalyzeStored
    \/ BackendReturnsStored
    \/ BackendThrowsStored
    \/ TickStored

SpecStored == InitStored /\ [][NextStored]_vars

(***************************************************************************)
(* A session that analyses one page, "hello world", again and again,       *)
(* recording the admission times and the runs of back-to-back calls        *)
(***************************************************************************)
InitOnePage ==
    /\ pages = {TextHello}
    /\ now = 0
    /\ rateLimiter = <<>>
    /\ cache = <<>>
    /\ inflight = EmptyBag
    /\ ev = NoEvent
    /\ admits = <<>>
    /\ stored = NothingStored
    /\ run = NoRun
    /\ plan = NoPlan
    /\ duo = NoDuo
    /\ NoUi

AnalyzeOnePage ==
    /\ \E text \in pages : handleContentAnalysis([mainContent |-> text])
    /\ ObserveAdmits
    /\ ObserveRun
    /\ UNCHANGED <<stored, plan, duo>>
    /\ UNCHANGED uiVars

BackendReturnsOnePage ==
    /\ \E call \in BagToSet(inflight), analysis \in Analyses : AnalysisReturns(call, analysis)
    /\ ObserveAdmits
    /\ ObserveRun
    /\ UNCHANGED <<stored, plan, duo>>
    /\ UNCHANGED uiVars

BackendThrowsOnePage ==
    /\ \E call \in BagToSet(inflight), error \in BackendErrors : AnalysisThrows(call, error)
    /\ ObserveAdmits
    /\ ObserveRun
    /\ UNCHANGED <<stored, plan, duo>>
    /\ UNCHANGED uiVars

TickOnePage ==
    /\ \E t \in Instants : Elapse(t)
    /\ ObserveAdmits
    /\ ObserveRun
    /\ UNCHANGED <<stored, plan, duo>>
    /\ UNCHANGED uiVars

NextOnePage ==
    \/ AnalyzeOnePage
    \/ BackendReturnsOnePage
    \/ BackendThrowsOnePage
    \/ TickOnePage

SpecOnePage == InitOnePage /\ [][NextOnePage]_vars

(***************************************************************************)
(* A session that analyses one page, "hello world", following the pairs of *)
(* calls of which the second is made while the first awaits the backend    *)
(***************************************************************************)
AnalyzeDuo ==
    /\ \E text \in pages : handleContentAnalysis([mainContent |-> text])
    /\ ObserveDuo
    /\ UNCHANGED <<admits, stored, run, plan>>
    /\ UNCHANGED uiVars

BackendReturnsDuo ==
    /\ \E call \in BagToSet(inflight), analysis \in Analyses : AnalysisReturns(call, analysis)
    /\ ObserveDuo
    /\ UNCHANGED <<admits, stored, run, plan>>
    /\ UNCHANGED uiVars

BackendThrowsDuo ==
    /\ \E call \in BagToSet(inflight), error \in BackendErrors : AnalysisThrows(call, error)
    /\ ObserveDuo
    /\ UNCHANGED <<admits, stored, run, plan>>
    /\ UNCHANGED uiVars

TickDuo ==
    /\ \E t \in Instants : Elapse(t)
    /\ ObserveDuo
    /\ UNCHANGED <<admits, stored, run, plan>>
    /\ UNCHANGED uiVars

NextDuo ==
    \/ AnalyzeDuo
    \/ BackendReturnsDuo
    \/ BackendThrowsDuo
    \/ TickDuo

SpecDuo == InitOnePage /\ [][NextDuo]_vars

(***************************************************************************)
(* A session that makes RATE_LIMIT + 1 calls with pairwise different texts *)
(* against a backend that succeeds                                         *)
(***************************************************************************)
InitPlan ==
    /\ plan \in {[NoPlan EXCEPT !.texts = texts] : texts \in Plans}
    /\ pages = {plan.texts[i] : i \in DOMAIN plan.texts}
    /\ now = 0
    /\ rateLimiter = <<>>
    /\ cache = <<>>
    /\ inflight = EmptyBag
    /\ ev = NoEvent
    /\ admits = <<>>
    /\ stored = NothingStored
    /\ run = NoRun
    /\ duo = NoDuo
    /\ NoUi

AnalyzePlan ==
    /\ Len(plan.outcomes) < Len(plan.texts)
    /\ handleContentAnalysis([mainContent |-> plan.texts[Len(plan.outcomes) + 1]])
    /\ ObservePlan
    /\ UNCHANGED <<admits, stored, run, duo>>
    /\ UNCHANGED uiVars

BackendReturnsPlan ==
    /\ \E call \in BagToSet(inflight) : AnalysisReturns(call, "analysisA")
    /\ ObservePlan
    /\ UNCHANGED <<admits, stored, run, duo>>
    /\ UNCHANGED uiVars

\* the calls are made when the window opens, at its very end, or just after it
TickPlan ==
    /\ \E t \in {RATE_WINDOW, RATE_WINDOW + 1} : Elapse(t)
    /\ ObservePlan
    /\ UNCHANGED <<admits, stored, run, duo>>
    /\ UNCHANGED uiVars

NextPlan ==
    \/ AnalyzePlan
    \/ BackendReturnsPlan
    \/ TickPlan

SpecPlan == InitPlan /\ [][NextPlan]_vars

(***************************************************************************)
(* The popup and the background: analyzeCurrentPage, ExtensionUtils'       *)
(* sendMessage, the listener of setupMessageHandlers, ExtensionStorage.    *)
(* A message, a suspended call and a reply are live while the sendMessage  *)
(* attempt that sent the message is still waiting for the reply.           *)
(***************************************************************************)
PageUrl == "https://app.example.com/board"

\* what getCurrentTab resolves to: null (id 0), a tab whose url the popup may not
\* read, a tab with its url
Tabs == {[id |-> 0, url |-> Null], [id |-> 1, url |-> Null], [id |-> 1, url |-> PageUrl]}

\* what the content script answers to EXTRACT_CONTENT
ExtractResponses ==
    {[success |-> TRUE, data |-> [mainContent |-> text]] : text \in pages}
        \cup {[success |-> FALSE, error |-> "Extraction failed"]}

\* what sendTabMessage throws after its last attempt
TabErrors == {ContentScriptMessage, ContextMessage, TabTimeoutMessage}

NoReply == [pending |-> TRUE]

\* response.data of a response without data
UndefinedData == [undefined |-> TRUE]

\* useState<chrome.tabs.Tab | null>(null)
NoTab == [id |-> 0, url |-> Null]

\* the first render of the popup, with an empty storage: currentTab is null and the
\* mount effect has started getCurrentTab() and loadCachedAnalysis(), each up to its
\* await of ExtensionUtils.getCurrentTab(). popup.mounted: the first has settled;
\* popup.activeTab: what chrome.tabs.query answers; popup.load: loadCachedAnalysis
\* awaits its tab ("tab"), awaits ExtensionStorage.getAnalysis ("get"), has ended.
InitPopup ==
    /\ pages = {TextHello}
    /\ now = 0
    /\ rateLimiter = <<>>
    /\ cache = <<>>
    /\ inflight = EmptyBag
    /\ ev = NoEvent
    /\ admits = <<>>
    /\ stored = NothingStored
    /\ run = NoRun
    /\ plan = NoPlan
    /\ duo = NoDuo
    /\ popup \in {[currentTab |-> NoTab, activeTab |-> tab, mounted |-> FALSE,
                   load |-> "tab", analysis |-> Null, loading |-> FALSE, error |-> Null,
                   lastAnalyzed |-> Null, pc |-> "idle", attempt |-> 0, data |-> UndefinedData,
                   reply |-> NoReply, wrote |-> FALSE] : tab \in Tabs}
    /\ storage = [analysis |-> Undefined, lastAnalyzedUrl |-> Undefined]
    /\ wire = [requests |-> EmptyBag, responders |-> EmptyBag, replies |-> {}]
    /\ script = NoContent
    /\ sender = NoSender

\* mutant: no finally block
Catch_KeepsLoading(message) ==
    [popup EXCEPT !.error = message, !.pc = "idle"]

\* the catch and finally blocks of analyzeCurrentPage
Catch(message) ==
    [popup EXCEPT !.error = message, !.loading = FALSE, !.pc = "idle"]

\* the attempt that is waiting for a reply gives up: what it sent is live no longer
Stale(bag) ==
    LET items == {[x EXCEPT !.live = FALSE] : x \in BagToSet(bag)}
        Copies(y) == IF [y EXCEPT !.live = TRUE] \in BagToSet(bag)
                     THEN CopiesIn([y EXCEPT !.live = TRUE], bag) ELSE 0
    IN  [y \in items |-> CopiesIn(y, bag) + Copies(y)]

\* mutant: sendResponse is not called
Respond_Dropped(live, response) == wire.replies

\* sendResponse(response): it reaches the popup if the attempt is still waiting
Respond(live, response) == IF live THEN wire.replies \cup {response} ELSE wire.replies

\* the render of Popup with a currentTab that has no url: the header evaluates
\* new URL(currentTab.url || '').hostname, and new URL('') throws a TypeError. No
\* error boundary catches it: what the popup showed is removed, with its buttons.
RenderThrows ==
    /\ popup.pc # "closed"
    /\ popup.currentTab.id # 0
    /\ popup.currentTab.url = Null

\* the getCurrentTab() of the mount effect settles: setCurrentTab(tab), and Popup is
\* rendered with the tab (see RenderThrows). No invocation of analyzeCurrentPage is
\* under way: one started with currentTab null has returned at once.
GetCurrentTabReturns ==
    /\ popup.pc # "closed"
    /\ ~popup.mounted
    /\ popup' = [popup EXCEPT !.currentTab = popup.activeTab, !.mounted = TRUE]
    /\ UNCHANGED <<coordVars, ghostVars, storage, wire, script, sender>>

\* loadCachedAnalysis: its getCurrentTab() settles; with a url it goes on to the
\* await of ExtensionStorage.getAnalysis(tab.url), without one it ends
LoadCachedTabReturns ==
    /\ popup.pc # "closed"
    /\ popup.load = "tab"
    /\ popup' = [popup EXCEPT !.load = IF popup.activeTab.url # Null THEN "get" ELSE "done"]
    /\ UNCHANGED <<coordVars, ghostVars, storage, wire, script, sender>>

\* loadCachedAnalysis: storage.get('analysis_' + url) settles with what the storage
\* holds; an analysis is shown, with lastAnalyzed = tab.url
LoadCachedAnalysisReturns ==
    /\ popup.pc # "closed"
    /\ popup.load = "get"
    /\ popup' = IF storage.analysis \notin {Undefined, Null}
                THEN [popup EXCEPT !.analysis = storage.analysis,
                                   !.lastAnalyzed = popup.activeTab.url,
                                   !.load = "done"]
                ELSE [popup EXCEPT !.load = "done"]
    /\ UNCHANGED <<coordVars, ghostVars, storage, wire, script, sender>>

\* loadCachedAnalysis: storage.get rejects; the catch logs
LoadCachedAnalysisThrows ==
    /\ popup.pc # "closed"
    /\ popup.load = "get"
    /\ popup' = [popup EXCEPT !.load = "done"]
    /\ UNCHANGED <<coordVars, ghostVars, storage, wire, script, sender>>

\* analyzeCurrentPage, from the click on "Analyze" (the button is disabled while
\* state.loading) to the await of sendTabMessage
ClickAnalyze ==
    /\ popup.pc # "closed"
    /\ ~RenderThrows
    /\ ~popup.loading
    /\ popup' = IF popup.currentTab.id = 0
                THEN [popup EXCEPT !.error = NoTabMessage]
                ELSE [popup EXCEPT !.loading = TRUE, !.error = Null, !.analysis = Null,
                                   !.pc = "extracting", !.attempt = 0, !.data = UndefinedData,
                                   !.reply = NoReply, !.wrote = FALSE]
    /\ UNCHANGED <<coordVars, ghostVars, storage, wire, script, sender>>

\* sendTabMessage({type: 'EXTRACT_CONTENT'}) returns the content script's response
ExtractContentReturns ==
    /\ popup.pc = "extracting"
    /\ \E response \in ExtractResponses :
          popup' = [popup EXCEPT !.pc = "sending",
                                 !.data = IF response.success THEN response.data
                                          ELSE UndefinedData]
    /\ UNCHANGED <<coordVars, ghostVars, storage, wire, script, sender>>

\* sendTabMessage throws after its last attempt
ExtractContentThrows ==
    /\ popup.pc = "extracting"
    /\ \E error \in TabErrors : popup' = Catch(error)
    /\ UNCHANGED <<coordVars, ghostVars, storage, wire, script, sender>>

\* one attempt of sendMessage({type: 'ANALYZE_CONTENT', data}), up to its await
SendAttempt ==
    /\ popup.pc = "sending"
    /\ BagCardinality(wire.requests) + BagCardinality(wire.responders) < MaxInflight
    /\ \E contextValid \in BOOLEAN :
          IF contextValid
          THEN /\ wire' = [wire EXCEPT !.requests =
                              @ (+) SetToBag({[data |-> popup.data, live |-> TRUE]})]
               /\ popup' = [popup EXCEPT !.pc = "awaiting"]
          ELSE /\ popup' = IF popup.attempt = retries THEN Catch(ContextMessage)
                           ELSE [popup EXCEPT !.attempt = @ + 1]
               /\ wire' = wire
    /\ UNCHANGED <<coordVars, ghostVars, storage, script, sender>>

\* the timeout of the attempt wins the race
AttemptTimesOut ==
    /\ popup.pc = "awaiting"
    /\ wire' = [requests |-> Stale(wire.requests), responders |-> Stale(wire.responders),
                replies |-> {}]
    /\ popup' = IF popup.attempt = retries THEN Catch(TimeoutMessage)
                ELSE [popup EXCEPT !.attempt = @ + 1, !.pc = "sending"]
    /\ UNCHANGED <<coordVars, ghostVars, storage, script, sender>>

\* the listener of setupMessageHandlers receives an ANALYZE_CONTENT message
BackgroundReceives ==
    \E request \in BagToSet(wire.requests) :
        LET rest == wire.requests (-) SetToBag({request})
        IN  IF request.data = UndefinedData
            THEN /\ ev' = [kind |-> "threw", value |-> TypeErrorMessage]
                 /\ wire' = [wire EXCEPT !.requests = rest,
                               !.replies = Respond(request.live,
                                   [success |-> FALSE, error |-> TypeErrorMessage])]
                 /\ UNCHANGED <<pages, now, rateLimiter, cache, inflight, ghostVars,
                                popup, storage, script, sender>>
            ELSE /\ handleContentAnalysis(request.data)
                 /\ wire' =
                      CASE ev'.kind = "hit" ->
                             [wire EXCEPT !.requests = rest,
                                !.replies = Respond(request.live,
                                    [success |-> TRUE, analysis |-> ev'.value])]
                        [] ev'.kind = "rejected" ->
                             [wire EXCEPT !.requests = rest,
                                !.replies = Respond(request.live,
                                    [success |-> FALSE, error |-> ev'.value])]
                        [] ev'.kind = "admitted" ->
                             [wire EXCEPT !.requests = rest,
                                !.responders = @ (+) SetToBag({
                                    [call |-> [data |-> request.data,
                                               contentHash |->
                                                 generateContentHash(request.data.mainContent)],
                                     live |-> request.live]})]
                 /\ UNCHANGED <<ghostVars, popup, storage, script, sender>>

\* the backend call of a suspended handleContentAnalysis returns: .then(sendResponse)
BackgroundResolves ==
    /\ \E responder \in BagToSet(wire.responders), analysis \in Analyses :
          /\ AnalysisReturns(responder.call, analysis)
          /\ wire' = [wire EXCEPT !.responders = @ (-) SetToBag({responder}),
                        !.replies = Respond(responder.live,
                            [success |-> TRUE, analysis |-> analysis])]
    /\ UNCHANGED <<ghostVars, popup, storage, script, sender>>

\* the backend call of a suspended handleContentAnalysis throws: .catch(sendResponse)
BackgroundRejects ==
    /\ \E responder \in BagToSet(wire.responders), error \in BackendErrors :
          /\ AnalysisThrows(responder.call, error)
          /\ wire' = [wire EXCEPT !.responders = @ (-) SetToBag({responder}),
                        !.replies = Respond(responder.live,
                            [success |-> FALSE, error |-> error])]
    /\ UNCHANGED <<ghostVars, popup, storage, script, sender>>

\* const analysis = analysisResponse.analysis
AnalysisOf(response) ==
    IF "analysis" \in DOMAIN response THEN response.analysis ELSE Undefined

\* sendMessage returns the reply; analyzeCurrentPage goes on to the await of
\* ExtensionStorage.setAnalysis or, for a tab without url, to its end (a branch of
\* the code that no rendered popup takes: see RenderThrows)
PopupReceives ==
    /\ popup.pc = "awaiting"
    /\ \E reply \in wire.replies :
          /\ popup' = IF popup.currentTab.url # Null
                      THEN [popup EXCEPT !.reply = reply, !.pc = "storing"]
                      ELSE [popup EXCEPT !.reply = reply, !.analysis = AnalysisOf(reply),
                                         !.lastAnalyzed = Null, !.loading = FALSE,
                                         !.pc = "idle"]
          /\ wire' = [wire EXCEPT !.replies = {}]
    /\ UNCHANGED <<coordVars, ghostVars, storage, script, sender>>

\* ExtensionStorage.setAnalysis: its first storage.set, of 'analysis_' + url, settles;
\* the second is started (popup.wrote: the first has settled)
SetAnalysisWritesAnalysis ==
    /\ popup.pc = "storing"
    /\ ~popup.wrote
    /\ storage' = [storage EXCEPT !.analysis = AnalysisOf(popup.reply)]
    /\ popup' = [popup EXCEPT !.wrote = TRUE]
    /\ UNCHANGED <<coordVars, ghostVars, wire, script, sender>>

\* the second storage.set of setAnalysis, of 'lastAnalyzedUrl', settles;
\* analyzeCurrentPage goes on to its end
SetAnalysisReturns ==
    /\ popup.pc = "storing"
    /\ popup.wrote
    /\ storage' = [storage EXCEPT !.lastAnalyzedUrl = popup.currentTab.url]
    /\ popup' = [popup EXCEPT !.analysis = AnalysisOf(popup.reply),
                              !.lastAnalyzed = popup.currentTab.url,
                              !.loading = FALSE, !.pc = "idle"]
    /\ UNCHANGED <<coordVars, ghostVars, wire, script, sender>>

\* the storage.set that setAnalysis awaits, its first or its second, rejects
SetAnalysisThrows ==
    /\ popup.pc = "storing"
    /\ popup' = Catch(StorageErrorMessage)
    /\ UNCHANGED <<coordVars, ghostVars, storage, wire, script, sender>>

\* the rate limiter's window runs out
TickPopup ==
    /\ Elapse(RATE_WINDOW + 1)
    /\ UNCHANGED <<ghostVars, uiVars>>

NextPopup ==
    \/ GetCurrentTabReturns
    \/ LoadCachedTabReturns
    \/ LoadCachedAnalysisReturns
    \/ LoadCachedAnalysisThrows
    \/ ClickAnalyze
    \/ ExtractContentReturns
    \/ ExtractContentThrows
    \/ SendAttempt
    \/ AttemptTimesOut
    \/ BackgroundReceives
    \/ BackgroundResolves
    \/ BackgroundRejects
    \/ PopupReceives
    \/ SetAnalysisWritesAnalysis
    \/ SetAnalysisReturns
    \/ SetAnalysisThrows
    \/ TickPopup

SpecPopup == InitPopup /\ [][NextPopup]_vars

(***************************************************************************)
(* The popup with its "Clear" button, and the background's CONTENT_CHANGED *)
(* handler. popup.clearing: the storage removal of clearAnalysis is        *)
(* pending.                                                                *)
(***************************************************************************)
InitClear ==
    /\ pages = {TextHello}
    /\ now = 0
    /\ rateLimiter = <<>>
    /\ cache = <<>>
    /\ inflight = EmptyBag
    /\ ev = NoEvent
    /\ admits = <<>>
    /\ stored = NothingStored
    /\ run = NoRun
    /\ plan = NoPlan
    /\ duo = NoDuo
    /\ popup \in {[currentTab |-> NoTab, activeTab |-> tab, mounted |-> FALSE,
                   load |-> "tab", analysis |-> Null, loading |-> FALSE, error |-> Null,
                   lastAnalyzed |-> Null, pc |-> "idle", attempt |-> 0, data |-> UndefinedData,
                   reply |-> NoReply, wrote |-> FALSE,
                   clearing |-> FALSE] : tab \in {t \in Tabs : t.id # 0}}
    /\ storage = [analysis |-> Undefined, lastAnalyzedUrl |-> Undefined]
    /\ wire = [requests |-> EmptyBag, responders |-> EmptyBag, replies |-> {}]
    /\ script = NoContent
    /\ sender = NoSender

\* a handler that drops the cache when the page changes
handleContentChange_Invalidates(url) == cache' = <<>>

\* handleContentChange(url) of the background: console.log only
handleContentChange(url) == cache' = cache

\* the listener of setupMessageHandlers receives a CONTENT_CHANGED message:
\* handleContentChange(message.url || ''), then sendResponse({success: true})
ContentChanged ==
    /\ \E url \in {PageUrl, ""} : handleContentChange(url)
    /\ ev' = [kind |-> "contentChanged", reply |-> [success |-> TRUE]]
    /\ UNCHANGED <<pages, now, rateLimiter, inflight, ghostVars, uiVars>>

\* ExtensionStorage.clearAnalysis(url) with a url: storage.remove('analysis_' + url)
clearAnalysis(url) == [storage EXCEPT !.analysis = Undefined]

\* the click on "Clear", rendered with the analysis: clearAnalysis of the popup up
\* to its await (one removal pending at a time)
ClickClear ==
    /\ ~RenderThrows
    /\ popup.analysis \notin {Null, Undefined}
    /\ ~popup.clearing
    /\ popup' = [popup EXCEPT !.analysis = Null, !.error = Null, !.lastAnalyzed = Null,
                              !.clearing = (popup.currentTab.url # Null)]
    /\ UNCHANGED <<coordVars, ghostVars, storage, wire, script, sender>>

\* the storage removal of clearAnalysis settles
ClearAnalysisReturns ==
    /\ popup.clearing
    /\ storage' = clearAnalysis(popup.currentTab.url)
    /\ popup' = [popup EXCEPT !.clearing = FALSE]
    /\ UNCHANGED <<coordVars, ghostVars, wire, script, sender>>

NextClear ==
    \/ GetCurrentTabReturns
    \/ LoadCachedTabReturns
    \/ LoadCachedAnalysisReturns
    \/ LoadCachedAnalysisThrows
    \/ ClickAnalyze
    \/ ExtractContentReturns
    \/ ExtractContentThrows
    \/ SendAttempt
    \/ AttemptTimesOut
    \/ BackgroundReceives
    \/ BackgroundResolves
    \/ BackgroundRejects
    \/ PopupReceives
    \/ SetAnalysisWritesAnalysis
    \/ SetAnalysisReturns
    \/ SetAnalysisThrows
    \/ TickPopup
    \/ ContentChanged
    \/ ClickClear
    \/ ClearAnalysisReturns

SpecClear == InitClear /\ [][NextClear]_vars

(***************************************************************************)
(* generateContentHash on its own: a text of up to MaxText code units is   *)
(* hashed, and hashed again later in the session.                          *)
(***************************************************************************)
\* code units: NUL, "A", "a", a surrogate, the largest code unit
CodeUnits == {0, 65, 97, 55357, 65535}

HashInputs == UNION {[1..n -> CodeUnits] : n \in 0..MaxText}

InitHash ==
    /\ pages = {}
    /\ now = 0
    /\ rateLimiter = <<>>
    /\ cache = <<>>
    /\ inflight = EmptyBag
    /\ ev = NoEvent
    /\ admits = <<>>
    /\ stored = NothingStored
    /\ run = NoRun
    /\ duo = NoDuo
    /\ plan \in {[content |-> content, key |-> Null, again |-> Null] : content \in HashInputs}
    /\ popup = [pc |-> "closed"]
    /\ storage = [analysis |-> Undefined, lastAnalyzedUrl |-> Undefined]
    /\ wire = [requests |-> EmptyBag, responders |-> EmptyBag, replies |-> {}]
    /\ script = NoContent
    /\ sender = NoSender

\* const contentHash = this.generateContentHash(data.mainContent), first call
HashContent ==
    /\ plan.key = Null
    /\ plan' = [plan EXCEPT !.key = generateContentHash(plan.content)]
    /\ UNCHANGED <<coordVars, admits, stored, run, duo, uiVars>>

\* the same text is hashed again
HashContentAgain ==
    /\ plan.key # Null
    /\ plan.again = Null
    /\ plan' = [plan EXCEPT !.again = generateContentHash(plan.content)]
    /\ UNCHANGED <<coordVars, admits, stored, run, duo, uiVars>>

NextHash ==
    \/ HashContent
    \/ HashContentAgain

SpecHash == InitHash /\ [][NextHash]_vars

(***************************************************************************)
(* Where an analysis is computed: AIService.simulateAIAnalysis and         *)
(* SecureAIService.analyzeContent read the build's environment and choose  *)
(* a route. run.fetches: the requests sent, with the API key they carry;   *)
(* run.failure: how the awaited fetch failed; run.result: where the        *)
(* returned analysis came from; run.thrown: the error the call threw.      *)
(***************************************************************************)
BackendUrlMessage == "Backend URL not configured for production"

\* the fetch rejects, the response is not ok, or response.json() rejects
FetchFailures == {"network", "status", "body"}

OpenAIPlaceholder == "sk-your-openai-api-key-here"
AnthropicPlaceholder == "your-anthropic-api-key-here"
OpenAIEndpoint == "https://api.openai.com/v1/chat/completions"
AnthropicEndpoint == "https://api.anthropic.com/v1/messages"
ProxyUrl == "https://proxy.example.com"
NoKey == "no key"

Environments ==
    [NODE_ENV : {Undefined, "development", "production", "test"},
     OPENAI_API_KEY : {Undefined, "", OpenAIPlaceholder, "sk-live"},
     ANTHROPIC_API_KEY : {Undefined, "", AnthropicPlaceholder, "ak-live"},
     PLASMO_PUBLIC_BACKEND_URL : {Undefined, "", ProxyUrl},
     PLASMO_PUBLIC_API_URL : {Undefined, ProxyUrl}]

Services == {"AIService", "SecureAIService"}

\* a value in a condition
Truthy(value) == value \notin {Undefined, ""}

InitRoute ==
    /\ pages = {}
    /\ now = 0
    /\ rateLimiter = <<>>
    /\ cache = <<>>
    /\ inflight = EmptyBag
    /\ ev = NoEvent
    /\ admits = <<>>
    /\ stored = NothingStored
    /\ plan = NoPlan
    /\ duo = NoDuo
    /\ run \in {[env |-> env, service |-> service, pc |-> "start", fetches |-> {},
                 failure |-> "none", result |-> "none", thrown |-> "none"] :
                   env \in Environments, service \in Services}
    /\ popup = [pc |-> "closed"]
    /\ storage = [analysis |-> Undefined, lastAnalyzedUrl |-> Undefined]
    /\ wire = [requests |-> EmptyBag, responders |-> EmptyBag, replies |-> {}]
    /\ script = NoContent
    /\ sender = NoSender

\* mutant: a configured OpenAI key is used in every mode
simulateAIAnalysisRoute_KeyInEveryMode(env) ==
    LET isDevelopment == env.NODE_ENV = "development"
    IN  CASE Truthy(env.OPENAI_API_KEY) /\ env.OPENAI_API_KEY # OpenAIPlaceholder -> "openai"
          [] OTHER -> "simulation"

\* the branches of AIService.simulateAIAnalysis
simulateAIAnalysisRoute(env) ==
    LET isDevelopment == env.NODE_ENV = "development"
    IN  IF ~isDevelopment /\ Truthy(env.PLASMO_PUBLIC_BACKEND_URL) THEN "backend"
        ELSE IF /\ isDevelopment
                /\ Truthy(env.OPENAI_API_KEY)
                /\ env.OPENAI_API_KEY # OpenAIPlaceholder THEN "openai"
        ELSE IF /\ isDevelopment
                /\ Truthy(env.ANTHROPIC_API_KEY)
                /\ env.ANTHROPIC_API_KEY # AnthropicPlaceholder THEN "anthropic"
        ELSE "simulation"

\* the branches of SecureAIService.analyzeContent, developmentAnalysis and
\* productionAnalysis; backendUrl is PLASMO_PUBLIC_API_URL || ''
analyzeContentRoute(env) ==
    LET isDevelopment == env.NODE_ENV = "development"
        backendUrl == IF Truthy(env.PLASMO_PUBLIC_API_URL)
                      THEN env.PLASMO_PUBLIC_API_URL ELSE ""
    IN  IF isDevelopment
        THEN IF Truthy(env.OPENAI_API_KEY) /\ env.OPENAI_API_KEY # OpenAIPlaceholder
             THEN "openai"
             ELSE IF /\ Truthy(env.ANTHROPIC_API_KEY)
                     /\ env.ANTHROPIC_API_KEY # AnthropicPlaceholder
             THEN "anthropic"
             ELSE "simulation"
        ELSE IF backendUrl = "" THEN "threw" ELSE "backend"

\* the fetch that a route starts
FetchOf(route, env, service) ==
    CASE route = "openai" -> {[url |-> OpenAIEndpoint, key |-> env.OPENAI_API_KEY]}
      [] route = "anthropic" -> {[url |-> AnthropicEndpoint, key |-> env.ANTHROPIC_API_KEY]}
      [] route = "backend" ->
           {[url |-> IF service = "AIService" THEN env.PLASMO_PUBLIC_BACKEND_URL
                     ELSE env.PLASMO_PUBLIC_API_URL,
             key |-> NoKey]}
      [] OTHER -> {}

\* AIService.simulateAIAnalysis up to its first await
SimulateAIAnalysis ==
    /\ run.pc = "start"
    /\ run.service = "AIService"
    /\ LET route == simulateAIAnalysisRoute(run.env)
       IN  run' = [run EXCEPT !.pc = route,
                              !.fetches = @ \cup FetchOf(route, run.env, run.service)]
    /\ UNCHANGED <<coordVars, admits, stored, plan, duo, uiVars>>

\* SecureAIService.analyzeContent up to its first await, or to its throw
AnalyzeContent ==
    /\ run.pc = "start"
    /\ run.service = "SecureAIService"
    /\ LET route == analyzeContentRoute(run.env)
       IN  run' = [run EXCEPT !.pc = route,
                              !.fetches = @ \cup FetchOf(route, run.env, run.service),
                              !.thrown = IF route = "threw" THEN BackendUrlMessage ELSE @]
    /\ UNCHANGED <<coordVars, admits, stored, plan, duo, uiVars>>

\* the fetch settles with a usable response: the analysis is returned
FetchReturns ==
    /\ run.pc \in {"backend", "openai", "anthropic"}
    /\ run' = [run EXCEPT !.pc = "returned", !.result = "fetched"]
    /\ UNCHANGED <<coordVars, admits, stored, plan, duo, uiVars>>

\* mutant: productionAnalysis lets the error of the backend through
FetchFailure_Rethrows(service, route, failure, completion) == "threw"

\* what a failed fetch leads to; completion: the body of a response that is not ok
\* is a well-formed completion. The try/catch of productionAnalysis returns
\* this.simulateAnalysis(data); callSecureBackend throws on !response.ok and has no
\* catch; the vendor calls have no catch and do not test response.ok: they return
\* what the body holds, or throw a TypeError reading result.choices[0] /
\* result.content[0] of an error body
FetchFailure(service, route, failure, completion) ==
    IF service = "SecureAIService" /\ route = "backend" THEN "simulated"
    ELSE IF route \in {"openai", "anthropic"} /\ failure = "status" /\ completion
    THEN "fetched"
    ELSE "threw"

\* the error a failed fetch ends the call with
ThrownBy(route, failure) ==
    IF route \in {"openai", "anthropic"} /\ failure = "status" THEN "TypeError" ELSE failure

\* the fetch rejects, the response is not ok or its body does not parse
FetchFails ==
    /\ run.pc \in {"backend", "openai", "anthropic"}
    /\ \E failure \in FetchFailures, completion \in BOOLEAN :
          /\ completion => failure = "status"
          /\ LET outcome == FetchFailure(run.service, run.pc, failure, completion)
             IN  run' = [run EXCEPT !.failure = failure,
                                    !.pc = IF outcome = "threw" THEN "threw" ELSE "returned",
                                    !.result = IF outcome = "threw" THEN @ ELSE outcome,
                                    !.thrown = IF outcome = "threw"
                                               THEN ThrownBy(run.pc, failure) ELSE @]
    /\ UNCHANGED <<coordVars, admits, stored, plan, duo, uiVars>>

\* the simulated analysis is returned
SimulationReturns ==
    /\ run.pc = "simulation"
    /\ run' = [run EXCEPT !.pc = "returned", !.result = "simulated"]
    /\ UNCHANGED <<coordVars, admits, stored, plan, duo, uiVars>>

NextRoute ==
    \/ SimulateAIAnalysis
    \/ AnalyzeContent
    \/ FetchReturns
    \/ FetchFails
    \/ SimulationReturns

SpecRoute == InitRoute /\ [][NextRoute]_vars

(***************************************************************************)
(* The content script's MutationObserver: SaasContentExtractor's           *)
(* setupMutationObserver, debounceContentChange and handleContentChange.   *)
(* script.timers are the browser's pending timers; a timer's task runs at *)
(* its due time or later. script.lastCallback, ran, ranAt and sent record *)
(* the last mutation callback and what has happened since;                 *)
(* script.observing: the observer has not been disconnected by destroy.    *)
(***************************************************************************)
DEBOUNCE_DELAY == 1000

\* the instants at which the content script is observed
DebounceInstants ==
    {t \in {k * DEBOUNCE_DELAY + d : k \in 0..MaxQuiet, d \in {-1, 0, 1}} : t >= 0}

InitContent ==
    /\ pages = {TextHello}
    /\ now = 0
    /\ rateLimiter = <<>>
    /\ cache = <<>>
    /\ inflight = EmptyBag
    /\ ev = NoEvent
    /\ admits = <<>>
    /\ stored = NothingStored
    /\ run = NoRun
    /\ plan = NoPlan
    /\ duo = NoDuo
    /\ popup = [pc |-> "closed"]
    /\ storage = [analysis |-> Undefined, lastAnalyzedUrl |-> Undefined]
    /\ wire = [requests |-> EmptyBag, responders |-> EmptyBag, replies |-> {}]
    /\ script = [loaded |-> TRUE, debounceTimer |-> 0, timers |-> {}, nextId |-> 1,
                  lastCallback |-> -1, ran |-> 0, ranAt |-> -1, sent |-> 0,
                  burst |-> FALSE, observing |-> TRUE]
    /\ sender = NoSender

\* clearTimeout(id)
clearTimeout(timers, id) == {timer \in timers : timer.id # id}

\* mutant: the pending timer is not cancelled
debounceContentChange_NoClear(c, significant, t) ==
    [c EXCEPT !.timers = @ \cup {[id |-> c.nextId, due |-> t + DEBOUNCE_DELAY,
                                   significant |-> significant]},
              !.debounceTimer = c.nextId,
              !.nextId = @ + 1]

\* debounceContentChange(func, 1000), func being handleContentChange(mutations) with
\* the mutations of this callback; debounceTimer 0 is null
debounceContentChange(c, significant, t) ==
    [c EXCEPT !.timers = (IF c.debounceTimer # 0 THEN clearTimeout(@, c.debounceTimer)
                          ELSE @)
                           \cup {[id |-> c.nextId, due |-> t + DEBOUNCE_DELAY,
                                  significant |-> significant]},
              !.debounceTimer = c.nextId,
              !.nextId = @ + 1]

\* a callback at time t belongs to the burst of the callback before it: less than
\* DEBOUNCE_DELAY ms have passed since that callback
SameBurst(c, t) == c.lastCallback >= 0 /\ t - c.lastCallback < DEBOUNCE_DELAY

\* the callback of the MutationObserver; significant: some mutation of the batch
\* is a childList mutation with added nodes. script.burst records whether some
\* batch of the burst this callback belongs to is significant
MutationCallback ==
    /\ script.observing
    /\ script.nextId <= MaxTimers
    /\ \E significant \in BOOLEAN :
          script' = [debounceContentChange(script, significant, now) EXCEPT
                         !.lastCallback = now, !.ran = 0, !.sent = 0,
                         !.burst = significant \/ (SameBurst(script, now) /\ script.burst)]
    /\ UNCHANGED <<coordVars, ghostVars, popup, storage, wire, sender>>

\* a timer's task runs: handleContentChange(mutations)
TimerFires ==
    /\ \E timer \in script.timers :
          /\ now >= timer.due
          /\ script' = [script EXCEPT !.timers = @ \ {timer},
                                        !.ran = @ + 1,
                                        !.ranAt = now,
                                        !.sent = @ + (IF timer.significant THEN 1 ELSE 0)]
    /\ UNCHANGED <<coordVars, ghostVars, popup, storage, wire, sender>>

\* destroy(), called by the beforeunload listener: mutationObserver.disconnect()
\* and clearTimeout(debounceTimer) when a timer id is stored
Destroy ==
    /\ script.observing
    /\ script' = [script EXCEPT !.observing = FALSE,
                                  !.timers = IF script.debounceTimer # 0
                                             THEN clearTimeout(@, script.debounceTimer)
                                             ELSE @]
    /\ UNCHANGED <<coordVars, ghostVars, popup, storage, wire, sender>>

\* time passes in the page
TickContent ==
    /\ \E t \in DebounceInstants : t > now /\ now' = t
    /\ UNCHANGED <<pages, rateLimiter, cache, inflight, ev, ghostVars, uiVars>>

NextContent ==
    \/ MutationCallback
    \/ TimerFires
    \/ Destroy
    \/ TickContent

SpecContent == InitContent /\ [][NextContent]_vars

(***************************************************************************)
(* One invocation of analyzeCurrentPage: the popup is opened on a tab with *)
(* a url and "Analyze" is clicked once. All that the background is asked   *)
(* to do comes from that invocation.                                       *)
(***************************************************************************)
InitResend ==
    /\ InitPopup
    /\ popup.activeTab.url = PageUrl

\* the first click on "Analyze": no invocation has ended with an error or a result
ClickAnalyzeOnce ==
    /\ popup.error = Null
    /\ popup.lastAnalyzed = Null
    /\ ClickAnalyze

NextResend ==
    \/ GetCurrentTabReturns
    \/ LoadCachedTabReturns
    \/ LoadCachedAnalysisReturns
    \/ LoadCachedAnalysisThrows
    \/ ClickAnalyzeOnce
    \/ ExtractContentReturns
    \/ ExtractContentThrows
    \/ SendAttempt
    \/ AttemptTimesOut
    \/ BackgroundReceives
    \/ BackgroundResolves
    \/ BackgroundRejects
    \/ PopupReceives
    \/ SetAnalysisWritesAnalysis
    \/ SetAnalysisReturns
    \/ SetAnalysisThrows

SpecResend == InitResend /\ [][NextResend]_vars

(***************************************************************************)
(* The background's listener with every type of message: ANALYZE_CONTENT   *)
(* from the popup on a tab with a url, CONTENT_CHANGED, and types it does  *)
(* not handle.                                                             *)
(***************************************************************************)
\* the listener receives a message of a type it has no branch for: return false
OtherMessage ==
    /\ \E type \in {"EXTRACT_CONTENT", "PING"} : ev' = [kind |-> "ignored", type |-> type]
    /\ UNCHANGED <<pages, now, rateLimiter, cache, inflight, ghostVars, uiVars>>

NextMessages ==
    \/ GetCurrentTabReturns
    \/ LoadCachedTabReturns
    \/ LoadCachedAnalysisReturns
    \/ LoadCachedAnalysisThrows
    \/ ClickAnalyze
    \/ ExtractContentReturns
    \/ ExtractContentThrows
    \/ SendAttempt
    \/ AttemptTimesOut
    \/ BackgroundReceives
    \/ BackgroundResolves
    \/ BackgroundRejects
    \/ PopupReceives
    \/ SetAnalysisWritesAnalysis
    \/ SetAnalysisReturns
    \/ SetAnalysisThrows
    \/ ContentChanged
    \/ OtherMessage

SpecMessages == InitResend /\ [][NextMessages]_vars

(***************************************************************************)
(* ExtensionUtils.sendMessage and sendTabMessage on their own, with time.  *)
(* sender: fn and retries of the call, the attempt of its loop, where it   *)
(* stands (pc), and a record of what has happened: attempts begun, those   *)
(* begun with an invalid context, chrome messages sent, when the attempt   *)
(* began to wait (started), when the last attempt failed (failedAt), the   *)
(* error it caught, what the call returned or threw.                       *)
(***************************************************************************)
SEND_TIMEOUT == 5000

InvalidatedMessage == "Extension context invalidated"
ReceivingEndMessage == "Could not establish connection. Receiving end does not exist."

\* the messages m with m.includes('Extension context invalidated')
WithContextInvalidated == {InvalidatedMessage, "Extension context invalidated."}
\* the messages m with m.includes('Receiving end does not exist')
WithReceivingEnd == {ReceivingEndMessage}

\* what chrome.runtime.sendMessage and chrome.tabs.sendMessage reject with
ChromeErrors ==
    {[class |-> "Error", message |-> message] :
        message \in {ReceivingEndMessage, "Extension context invalidated.",
                     "The message port closed before a response was received."}}

\* what the receiver answers; undefined when no listener answers
SendResults == {[success |-> TRUE], [success |-> FALSE], [undefined |-> TRUE]}

\* no error has been caught, none thrown
NoError == [class |-> "none", message |-> ""]

\* mutant: the same wait after every failed attempt
Backoff_Fixed(attempt) == 500

\* the wait before the next attempt
Backoff(attempt) == 500 * (attempt + 1)

\* mutant: the last error is rethrown as it is
FinalError_Unchanged(fn, error) == error

\* what the catch block throws after the last attempt
FinalError(fn, error) ==
    IF error.message \in WithContextInvalidated
    THEN [class |-> "ExtensionContextError", message |-> ContextMessage]
    ELSE IF fn = "sendTabMessage" /\ error.message \in WithReceivingEnd
    THEN [class |-> "ContentScriptError", message |-> ContentScriptMessage]
    ELSE error

InitSend ==
    /\ pages = {}
    /\ now = 0
    /\ rateLimiter = <<>>
    /\ cache = <<>>
    /\ inflight = EmptyBag
    /\ ev = NoEvent
    /\ admits = <<>>
    /\ stored = NothingStored
    /\ run = NoRun
    /\ plan = NoPlan
    /\ duo = NoDuo
    /\ popup = [pc |-> "closed"]
    /\ storage = [analysis |-> Undefined, lastAnalyzedUrl |-> Undefined]
    /\ wire = [requests |-> EmptyBag, responders |-> EmptyBag, replies |-> {}]
    /\ script = NoContent
    /\ sender \in {[fn |-> fn, retries |-> n, attempt |-> 0, pc |-> "attempt",
                    attempts |-> 0, invalid |-> 0, sent |-> 0, started |-> 0, failedAt |-> 0,
                    error |-> NoError, result |-> NoReply, thrown |-> NoError] :
                      fn \in {"sendMessage", "sendTabMessage"}, n \in 0..MaxRetries}

\* the catch block of the loop
Caught(error) ==
    IF sender.attempt = sender.retries
    THEN [sender EXCEPT !.pc = "threw", !.error = error,
                        !.thrown = FinalError(sender.fn, error)]
    ELSE [sender EXCEPT !.pc = "backoff", !.error = error, !.failedAt = now]

\* the try block up to its await: the context check, the timer, the chrome message
Attempt ==
    /\ sender.pc = "attempt"
    /\ \E contextValid \in BOOLEAN :
          sender' =
             IF contextValid
             THEN [sender EXCEPT !.pc = "racing", !.attempts = @ + 1, !.sent = @ + 1,
                                 !.started = now]
             ELSE [Caught([class |-> "Error", message |-> InvalidatedMessage])
                      EXCEPT !.attempts = @ + 1, !.invalid = @ + 1]
    /\ UNCHANGED <<coordVars, ghostVars, popup, storage, wire, script>>

\* the chrome message is answered before the timeout: return result
MessageReturns ==
    /\ sender.pc = "racing"
    /\ \E result \in SendResults : sender' = [sender EXCEPT !.pc = "returned", !.result = result]
    /\ UNCHANGED <<coordVars, ghostVars, popup, storage, wire, script>>

\* the chrome message rejects before the timeout
MessageRejects ==
    /\ sender.pc = "racing"
    /\ \E error \in ChromeErrors : sender' = Caught(error)
    /\ UNCHANGED <<coordVars, ghostVars, popup, storage, wire, script>>

\* the timer of the attempt rejects the race
SendTimeout ==
    /\ sender.pc = "racing"
    /\ now >= sender.started + SEND_TIMEOUT
    /\ sender' = Caught([class |-> "Error",
                         message |-> IF sender.fn = "sendMessage" THEN TimeoutMessage
                                     ELSE TabTimeoutMessage])
    /\ UNCHANGED <<coordVars, ghostVars, popup, storage, wire, script>>

\* the wait before the next attempt is over: attempt++
BackoffEnds ==
    /\ sender.pc = "backoff"
    /\ now >= sender.failedAt + Backoff(sender.attempt)
    /\ sender' = [sender EXCEPT !.pc = "attempt", !.attempt = @ + 1]
    /\ UNCHANGED <<coordVars, ghostVars, popup, storage, wire, script>>

\* time passes while the call awaits, in steps of the shortest wait; a timer runs
\* when it is due
TickSend ==
    /\ \/ sender.pc = "racing" /\ now < sender.started + SEND_TIMEOUT
       \/ sender.pc = "backoff" /\ now < sender.failedAt + Backoff(sender.attempt)
    /\ now' = now + Backoff(0)
    /\ UNCHANGED <<pages, rateLimiter, cache, inflight, ev, ghostVars, uiVars>>

NextSend ==
    \/ Attempt
    \/ MessageReturns
    \/ MessageRejects
    \/ SendTimeout
    \/ BackoffEnds
    \/ TickSend

\* the event loop goes on running: timers fire, continuations run
SpecSend == InitSend /\ [][NextSend]_vars /\ WF_vars(NextSend)

(***************************************************************************)
(* Vocabulary of the properties                                            *)
(***************************************************************************)
HasEntry == userKey \in DOMAIN rateLimiter
Entry == rateLimiter[userKey]

\* this step is a call of handleContentAnalysis with mainContent = text
CallOf(text) ==
    /\ ev'.kind \in {"hit", "rejected", "admitted"}
    /\ ev'.text = text

\* the cache key of each text
HashOf == [x \in Texts |-> generateContentHash(x)]

\* the text has a cache entry that is still valid / that has expired
Valid(text) == CacheHit(cache, HashOf[text], now)
Expired(text) ==
    /\ HashOf[text] \in DOMAIN cache
    /\ now - cache[HashOf[text]].timestamp >= CACHE_DURATION

\* the call record of a suspended handleContentAnalysis(text)
CallRecord(text) == [data |-> [mainContent |-> text], contentHash |-> HashOf[text]]

(***************************************************************************)
(* C1 (amended): when a call with text x was a cache miss that has         *)
(* returned its analysis, no other cache-miss call with the same content   *)
(* hash has returned since, and less than CACHE_DURATION ms have passed    *)
(* since it returned, a call with text x returns that same analysis and    *)
(* leaves the rate limiter (and the cache) as they were                    *)
(***************************************************************************)
C1_CachedResultReused ==
    [][\A x \in Texts :
         (/\ CallOf(x)
          /\ stored.of[x].has
          /\ now - stored.of[x].at < CACHE_DURATION)
         => (/\ ev'.kind = "hit"
             /\ ev'.value = stored.of[x].data
             /\ rateLimiter' = rateLimiter
             /\ cache' = cache)]_vars

\* C1 as stated, its second half: a call made less than CACHE_DURATION ms after
\* a call with the identical text does not change the rate limiter
C1_SecondCallLeavesLimiter ==
    [][\A x \in Texts :
         (/\ CallOf(x)
          /\ stored.calledAt[x] >= 0
          /\ now - stored.calledAt[x] < CACHE_DURATION)
         => rateLimiter' = rateLimiter]_vars

\* a call was served the stored analysis in the last millisecond of its life
C1_Witness ==
    /\ ev.kind = "hit"
    /\ stored.of[ev.text].has
    /\ ev.value = stored.of[ev.text].data
    /\ now - stored.of[ev.text].at = CACHE_DURATION - 1

(***************************************************************************)
(* C2 (amended): starting from a fresh service, with a backend that        *)
(* succeeds, of RATE_LIMIT + 1 calls whose texts have pairwise different   *)
(* hashes, all made no more than RATE_WINDOW ms after the first, the first *)
(* RATE_LIMIT are admitted to the backend and the last one is rejected     *)
(* with the rate-limit error                                               *)
(***************************************************************************)
C2_TenDistinctHashes ==
    (plan.texts \in DistinctHashPlans /\ plan.inWindow)
    => /\ \A k \in DOMAIN plan.outcomes :
            plan.outcomes[k] = IF k <= RATE_LIMIT THEN "admitted" ELSE "rejected"
       /\ ev.kind = "rejected" => ev.value = RateLimitMessage

\* C2 as stated: of RATE_LIMIT + 1 calls with pairwise different texts, all made no
\* more than RATE_WINDOW ms after the first, the first RATE_LIMIT succeed and the
\* last one is rejected
C2_TenDistinctTexts ==
    (plan.texts \in DistinctTextPlans /\ plan.inWindow)
    => \A k \in DOMAIN plan.outcomes :
            IF k <= RATE_LIMIT THEN plan.outcomes[k] \in {"admitted", "hit"}
            ELSE plan.outcomes[k] = "rejected"

\* the eleventh call has been rejected at the very end of the window, and every
\* admitted call has returned
C2_Witness ==
    /\ plan.texts \in DistinctHashPlans
    /\ plan.inWindow
    /\ Len(plan.outcomes) = RATE_LIMIT + 1
    /\ plan.outcomes[RATE_LIMIT + 1] = "rejected"
    /\ ev.kind = "rejected"
    /\ now - plan.firstAt = RATE_WINDOW
    /\ inflight = EmptyBag

(***************************************************************************)
(* C3 (amended): in a run of calls with the same text in which call 1 is   *)
(* admitted as a cache miss and every later call is made after call 1 has  *)
(* returned, and less than CACHE_DURATION ms after that, every later call  *)
(* is a cache hit and leaves the limiter as call 1 left it                 *)
(***************************************************************************)
C3_SequentialRepeatsHit ==
    (run.n >= 2 /\ run.sequential) => run.ok

\* C3 as stated: in a run of calls with the same text made with no delay between
\* them, every call after call 1 is a cache hit that leaves the limiter alone
C3_NoDelayRepeatsHit ==
    (run.n >= 2 /\ run.noDelay) => run.ok

\* eleven calls, made without delay, each after call 1 had returned: ten cache hits
C3_Witness ==
    /\ run.n = RATE_LIMIT + 1
    /\ run.sequential
    /\ run.noDelay
    /\ run.ok
    /\ ev.kind = "hit"
    /\ Entry.count = 1

(***************************************************************************)
(* C4: in every reachable state the rate limiter holds at most one entry,  *)
(* under the key 'default_user', and its count is between 1 and RATE_LIMIT *)
(***************************************************************************)
C4_LimiterBounded ==
    /\ DOMAIN rateLimiter \subseteq {userKey}
    /\ HasEntry => (1 <= Entry.count /\ Entry.count <= RATE_LIMIT)

\* the limiter is full and has just turned a call away
C4_Witness ==
    /\ HasEntry
    /\ Entry.count = RATE_LIMIT
    /\ ev.kind = "rejected"

(***************************************************************************)
(* C5: in any 60-second span of time at most RATE_LIMIT calls are admitted *)
(* by the rate limiter (admits: the admissions of the span that ends now)  *)
(***************************************************************************)
C5_TenPerMinute == Len(admits) <= RATE_LIMIT

\* eleven calls have been admitted within two milliseconds
C5_Witness ==
    /\ Len(admits) = RATE_LIMIT + 1
    /\ admits[Len(admits)] - admits[1] <= 1

(***************************************************************************)
(* C6: once more than RATE_WINDOW ms have passed since the window's first  *)
(* call, the next cache-miss call is admitted whatever the count was, and  *)
(* the stale entry is replaced by a fresh one: timestamp = now, count = 1  *)
(***************************************************************************)
C6_WindowResets ==
    [][\A x \in Texts :
         (/\ CallOf(x)
          /\ ~Valid(x)
          /\ HasEntry
          /\ now - Entry.timestamp > RATE_WINDOW)
         => (/\ ev'.kind = "admitted"
             /\ rateLimiter' = (userKey :> [timestamp |-> now, count |-> 1]))]_vars

\* a call was admitted although the (stale) entry before it stood at RATE_LIMIT
C6_Witness ==
    /\ ev.kind = "admitted"
    /\ userKey \in DOMAIN ev.limiterBefore
    /\ ev.limiterBefore[userKey].count = RATE_LIMIT
    /\ Entry = [timestamp |-> now, count |-> 1]

(***************************************************************************)
(* C7: a cache entry is served only while now - timestamp < CACHE_DURATION;*)
(* a call whose entry has expired is a miss: it goes through the rate      *)
(* limiter and, when admitted, calls the backend, whose result overwrites  *)
(* the entry with a new timestamp                                          *)
(***************************************************************************)
C7_EntryExpires ==
    [][\A x \in Texts :
         /\ (CallOf(x) /\ ev'.kind = "hit")
            => (Valid(x) /\ ev'.value = cache[HashOf[x]].data)
         /\ (CallOf(x) /\ Expired(x))
            => (/\ ev'.kind \in {"admitted", "rejected"}
                /\ ev'.kind = "rejected" => (HasEntry /\ Entry.count >= RATE_LIMIT)
                /\ ev'.kind = "admitted"
                   => (/\ rateLimiter' # rateLimiter
                       /\ inflight' = inflight (+) SetToBag({CallRecord(x)})
                       /\ cache' = cache))
         /\ (ev'.kind = "resolved" /\ ev'.text = x /\ ev' # ev)
            => (cache'[HashOf[x]] = [data |-> ev'.value, timestamp |-> now])
      ]_vars

\* a call has just been admitted as a miss although its text has an (expired) entry
C7_Witness ==
    /\ ev.kind = "admitted"
    /\ Expired(ev.text)
    /\ BagIn(CallRecord(ev.text), inflight)

(***************************************************************************)
(* C8: when the background has answered the popup's ANALYZE_CONTENT with   *)
(* the rate-limit error, analyzeCurrentPage ends with state.error holding  *)
(* that message, state.analysis null, and nothing written to the storage   *)
(***************************************************************************)
RateLimitReply == [success |-> FALSE, error |-> RateLimitMessage]

C8_RejectionShown ==
    (popup.pc = "idle" /\ popup.reply = RateLimitReply)
    => (/\ popup.error = RateLimitMessage
        /\ popup.analysis = Null
        /\ ~popup.wrote)

\* analyzeCurrentPage has ended after a rate-limit rejection: no error is shown, and
\* undefined has been stored as the analysis of the page
C8_Witness ==
    /\ popup.pc = "idle"
    /\ popup.reply = RateLimitReply
    /\ popup.error = Null
    /\ popup.analysis = Undefined
    /\ storage = [analysis |-> Undefined, lastAnalyzedUrl |-> PageUrl]
    /\ popup.wrote

(***************************************************************************)
(* C9: with the limiter at RATE_LIMIT in a window that is still active, a  *)
(* call for content without a valid cache entry throws the rate-limit      *)
(* error at once: nothing is queued, no backend call starts, and cache and *)
(* limiter (count and timestamp) stay as they were                         *)
(***************************************************************************)
C9_RejectionChangesNothing ==
    [][\A x \in Texts :
         (/\ CallOf(x)
          /\ ~Valid(x)
          /\ HasEntry
          /\ Entry.count >= RATE_LIMIT
          /\ now - Entry.timestamp <= RATE_WINDOW)
         => (/\ ev'.kind = "rejected"
             /\ ev'.value = RateLimitMessage
             /\ UNCHANGED <<now, rateLimiter, cache, inflight>>)]_vars

\* a call was rejected while the model still had room for another backend call
C9_Witness ==
    /\ ev.kind = "rejected"
    /\ ~Valid(ev.text)
    /\ BagCardinality(inflight) < MaxInflight
    /\ Entry.count = RATE_LIMIT

(***************************************************************************)
(* C10: when the backend call of an admitted call throws, the call throws  *)
(* that error and is over (no retry); the cache and the limiter are left   *)
(* as they were, so the admission stays counted, and the next call with    *)
(* the same text, still without a valid entry, is a cache miss again       *)
(***************************************************************************)
C10_BackendFailure ==
    [][\A x \in Texts :
         /\ (ev'.kind = "failed" /\ ev'.text = x /\ ev' # ev)
            => (/\ ev'.value \in BackendErrors
                /\ BagIn(CallRecord(x), inflight)
                /\ inflight' = inflight (-) SetToBag({CallRecord(x)})
                /\ cache' = cache
                /\ rateLimiter' = rateLimiter
                /\ HasEntry)
         /\ (ev.kind = "failed" /\ ev.text = x /\ ~Valid(x) /\ CallOf(x))
            => ev'.kind \in {"admitted", "rejected"}
      ]_vars

\* a backend call has failed, and the text of the failed call has no cache entry
C10_Witness ==
    /\ ev.kind = "failed"
    /\ HashOf[ev.text] \notin DOMAIN cache
    /\ HasEntry

(***************************************************************************)
(* C11: a call for content with a valid cache entry returns the stored     *)
(* result whatever the limiter holds, in particular with the count at      *)
(* RATE_LIMIT in an active window, and leaves limiter and cache unchanged  *)
(* and starts no backend call                                              *)
(***************************************************************************)
C11_HitWhateverTheLimiter ==
    [][\A x \in Texts :
         (CallOf(x) /\ Valid(x))
         => (/\ ev'.kind = "hit"
             /\ ev'.value = cache[HashOf[x]].data
             /\ UNCHANGED <<rateLimiter, cache, inflight>>)]_vars

\* a call has been served from the cache while the limiter was full in an active window
C11_Witness ==
    /\ ev.kind = "hit"
    /\ HasEntry
    /\ Entry.count = RATE_LIMIT
    /\ now - Entry.timestamp <= RATE_WINDOW

(***************************************************************************)
(* C12: a call counts at most one admission. A cache hit and a rejected    *)
(* call leave the limiter as it was; an admitted cache miss in an active   *)
(* window increments the count by one and leaves the window's timestamp,   *)
(* and with no entry or a stale one it starts a window with count 1; the   *)
(* rest of the call, after the backend has answered, leaves the limiter    *)
(***************************************************************************)
ActiveWindow == HasEntry /\ now - Entry.timestamp <= RATE_WINDOW

C12_OneAdmissionPerCall ==
    [][/\ ev'.kind \in {"hit", "rejected"} => rateLimiter' = rateLimiter
       /\ (ev'.kind = "admitted" /\ ActiveWindow)
          => rateLimiter' = [rateLimiter EXCEPT ![userKey].count = @ + 1]
       /\ (ev'.kind = "admitted" /\ ~ActiveWindow)
          => rateLimiter' = (userKey :> [timestamp |-> now, count |-> 1])
       /\ ev'.kind \in {"resolved", "failed"} => rateLimiter' = rateLimiter
      ]_vars

\* a call was admitted in a window that another call had opened earlier: the count
\* is one higher, the timestamp is the old one
C12_Witness ==
    /\ ev.kind = "admitted"
    /\ userKey \in DOMAIN ev.limiterBefore
    /\ Entry.count = ev.limiterBefore[userKey].count + 1
    /\ Entry.timestamp = ev.limiterBefore[userKey].timestamp
    /\ now > Entry.timestamp

(***************************************************************************)
(* C13 (amended): when a text is submitted twice, the second time while    *)
(* the backend call of the first is pending, the limiter has counted       *)
(* exactly the admitted ones of the two on top of what the first call      *)
(* found, unless the window had expired when the second call was made:     *)
(* then the second call has opened a new window and the count is 1. Once   *)
(* both have resolved the cache holds, under the hash of the text and      *)
(* under no other key, exactly what the call that returned last returned,  *)
(* with the time of its return                                             *)
(***************************************************************************)
C13_TwoCallsNoCorruption ==
    duo.n = 2
    => /\ HasEntry
       /\ Entry.count = IF duo.reset THEN 1 ELSE duo.before + duo.admitted
       /\ duo.reset => duo.admitted = 2
       /\ (duo.pending = 0 /\ duo.last.has)
          => /\ DOMAIN cache = {HashOf[duo.text]}
             /\ cache[HashOf[duo.text]] = [data |-> duo.last.data, timestamp |-> duo.last.at]

\* C13 as stated: whenever the second call is made while the first awaits the
\* backend, the count has grown by the number of admitted calls
C13_GrownByAdmitted ==
    duo.n = 2 => (HasEntry /\ Entry.count = duo.before + duo.admitted)

\* both calls were admitted and have returned, at different times; the cache holds
\* what the later one returned
C13_Witness ==
    /\ duo.n = 2
    /\ ~duo.reset
    /\ duo.admitted = 2
    /\ duo.pending = 0
    /\ duo.returned = 2
    /\ duo.before > 0
    /\ cache[HashOf[duo.text]].timestamp = duo.last.at
    /\ duo.last.at > Entry.timestamp

(***************************************************************************)
(* C14: a call does its cache lookup, limiter check and limiter update in  *)
(* one step. A backend call is started only by a call that the limiter     *)
(* admits, in the step that counts the admission; a cache hit and a        *)
(* rejected call start none; the cache is written only in the step in      *)
(* which a backend call returns an analysis, with that analysis            *)
(***************************************************************************)
C14_OrderWithinACall ==
    [][/\ BagCardinality(inflight') > BagCardinality(inflight)
          => (/\ ev'.kind = "admitted"
              /\ rateLimiter'[userKey].count = EffectiveCount(rateLimiter, now) + 1
              /\ inflight' = inflight (+) SetToBag({CallRecord(ev'.text)})
              /\ cache' = cache)
       /\ ev'.kind \in {"hit", "rejected"} => (inflight' = inflight /\ cache' = cache)
       /\ ev'.kind = "admitted" => BagCardinality(inflight') > BagCardinality(inflight)
       /\ cache' # cache
          => (/\ ev'.kind = "resolved"
              /\ \E call \in BagToSet(inflight) :
                    /\ inflight' = inflight (-) SetToBag({call})
                    /\ cache' = CacheSet(cache, call.contentHash, ev'.value, now))
       /\ ev'.kind = "failed" => cache' = cache
      ]_vars

\* a call has been admitted and counted and awaits its backend call; the cache has
\* not been written
C14_Witness ==
    /\ ev.kind = "admitted"
    /\ BagIn(CallRecord(ev.text), inflight)
    /\ Entry.count = EffectiveCount(ev.limiterBefore, now) + 1
    /\ cache = <<>>

(***************************************************************************)
(* C15: no step removes a cache entry, and the cache changes only in the   *)
(* step in which a backend call returns. A CONTENT_CHANGED message and     *)
(* the popup's "Clear" leave the cache and the limiter as they were;       *)
(* "Clear" removes from the storage at most the analysis key of the tab's  *)
(* url. A request whose content has a valid cache entry is a cache hit.    *)
(***************************************************************************)
C15_CacheNeverInvalidated ==
    [][/\ DOMAIN cache \subseteq DOMAIN cache'
       /\ cache' # cache => ev'.kind = "resolved"
       /\ ev'.kind = "contentChanged" => (cache' = cache /\ rateLimiter' = rateLimiter)
       /\ popup'.clearing # popup.clearing
          => (/\ cache' = cache
              /\ rateLimiter' = rateLimiter
              /\ storage' \in {storage, [storage EXCEPT !.analysis = Undefined]})
       /\ \A request \in BagToSet(wire.requests) :
             (/\ wire'.requests = wire.requests (-) SetToBag({request})
              /\ request.data # UndefinedData
              /\ Valid(request.data.mainContent))
             => (/\ ev'.kind = "hit"
                 /\ request.live
                    => [success |-> TRUE,
                        analysis |-> cache[HashOf[request.data.mainContent]].data]
                          \in wire'.replies)
      ]_vars

\* after "Clear" has removed the stored analysis, a request for the same page has
\* been answered from the cache
C15_Witness ==
    /\ popup.lastAnalyzed = Null
    /\ ~popup.clearing
    /\ storage = [analysis |-> Undefined, lastAnalyzedUrl |-> PageUrl]
    /\ popup.pc = "awaiting"
    /\ ev.kind = "hit"
    /\ [success |-> TRUE, analysis |-> cache[HashOf[TextHello]].data] \in wire.replies

(***************************************************************************)
(* C16: the key of a text is the decimal rendering of the signed 32-bit    *)
(* value of the fold h -> h * 31 + code unit, started at 0 and reduced     *)
(* modulo 2^32 at every step; hashing the same text again gives the same   *)
(* key                                                                     *)
(***************************************************************************)
\* the low 32 bits of x * 31 + c, on limbs
Times31Plus(x, c) ==
    LET lo == x[2] * 31 + c
    IN  <<(x[1] * 31 + lo \div Limb) % Limb, lo % Limb>>

RECURSIVE Fold31(_, _)
Fold31(content, i) ==
    IF i = 0 THEN <<0, 0>> ELSE Times31Plus(Fold31(content, i - 1), content[i])

\* the two's-complement value of a bit pattern
Signed32(x) ==
    IF x[1] < Limb \div 2 THEN x[1] * Limb + x[2]
    ELSE 0 - (Limb - 1 - x[1]) * Limb - (Limb - x[2])

C16_HashIsFold31 ==
    /\ plan.key # Null
       => plan.key = ToString(Signed32(Fold31(plan.content, Len(plan.content))))
    /\ plan.again # Null => plan.again = plan.key

\* a text whose fold has wrapped around to a negative value has been hashed twice
C16_Witness ==
    /\ plan.again # Null
    /\ Len(plan.content) = MaxText
    /\ Fold31(plan.content, Len(plan.content))[1] >= Limb \div 2
    /\ plan.key = ToString(ToInt32(HashBits(plan.content, Len(plan.content))))
    /\ \E i, j \in DOMAIN plan.content : plan.content[i] < plan.content[j]

(***************************************************************************)
(* C17: when NODE_ENV is not 'development', neither service sends a        *)
(* request to OpenAI or Anthropic and no request carries an API key,       *)
(* whichever keys are set: the analysis comes from the backend proxy or    *)
(* the simulation, or the call fails. A request to a vendor is sent only   *)
(* in development mode, with the key of that vendor.                       *)
(***************************************************************************)
C17_KeysOnlyInDevelopment ==
    /\ run.env.NODE_ENV # "development"
       => /\ \A fetch \in run.fetches :
                /\ fetch.url \notin {OpenAIEndpoint, AnthropicEndpoint}
                /\ fetch.key = NoKey
          /\ run.pc \in {"start", "backend", "simulation", "returned", "threw"}
    /\ \A fetch \in run.fetches :
          fetch.key # NoKey
          => /\ run.env.NODE_ENV = "development"
             /\ fetch \in {[url |-> OpenAIEndpoint, key |-> run.env.OPENAI_API_KEY],
                           [url |-> AnthropicEndpoint, key |-> run.env.ANTHROPIC_API_KEY]}

\* a production build with both keys set and a proxy has asked the proxy, and only it
C17_Witness ==
    /\ run.env.NODE_ENV = "production"
    /\ run.env.OPENAI_API_KEY = "sk-live"
    /\ run.env.ANTHROPIC_API_KEY = "ak-live"
    /\ run.service = "AIService"
    /\ run.pc = "returned"
    /\ run.fetches = {[url |-> ProxyUrl, key |-> NoKey]}

(***************************************************************************)
(* C18: at most one timer of the content script is pending, the one set by *)
(* the last mutation callback and due DEBOUNCE_DELAY ms after it; since    *)
(* the last mutation callback handleContentChange has run at most once,    *)
(* not before DEBOUNCE_DELAY ms had passed since that callback, and at     *)
(* most one CONTENT_CHANGED message has been sent                          *)
(***************************************************************************)
C18_Debounced ==
    /\ Cardinality(script.timers) <= 1
    /\ \A timer \in script.timers :
          /\ timer.id = script.debounceTimer
          /\ timer.due = script.lastCallback + DEBOUNCE_DELAY
          /\ script.ran = 0
    /\ script.ran <= 1
    /\ script.sent <= script.ran
    /\ script.ran = 1 => script.ranAt - script.lastCallback >= DEBOUNCE_DELAY

\* a second mutation callback came while the timer of the first was pending; the
\* timer of the second has run the handler, which has sent CONTENT_CHANGED
C18_Witness ==
    /\ script.nextId = 3
    /\ script.lastCallback > 0
    /\ script.lastCallback < DEBOUNCE_DELAY
    /\ script.ran = 1
    /\ script.sent = 1
    /\ script.ranAt = script.lastCallback + DEBOUNCE_DELAY
    /\ script.timers = {}

(***************************************************************************)
(* C19 (amended): a call whose text has no valid cache entry while a call  *)
(* with the same text awaits the backend is checked by the limiter on its  *)
(* own: with fewer than RATE_LIMIT admissions counted in the window that   *)
(* is current when it is made (none, if the entry is older than the        *)
(* window) it is admitted, counted as one more admission, and awaits a     *)
(* backend call of its own; otherwise it is rejected. So of two such       *)
(* calls, the first admitted, both are admitted exactly when at most       *)
(* RATE_LIMIT - 2 admissions were counted before the first or the window   *)
(* had expired when the second was made. Every backend call that returns   *)
(* stores its analysis and the time of its return under the hash, whatever *)
(* was stored there.                                                       *)
(***************************************************************************)
C19_NoSingleFlight ==
    /\ [](duo.n = 2
          => duo.admitted = IF duo.before <= RATE_LIMIT - 2 \/ duo.reset THEN 2 ELSE 1)
    /\ [][/\ \A text \in pages :
                (/\ CallOf(text)
                 /\ BagIn(CallRecord(text), inflight)
                 /\ ~Valid(text))
                => IF EffectiveCount(rateLimiter, now) < RATE_LIMIT
                   THEN /\ ev'.kind = "admitted"
                        /\ rateLimiter'[userKey].count = EffectiveCount(rateLimiter, now) + 1
                        /\ CopiesIn(CallRecord(text), inflight')
                              = CopiesIn(CallRecord(text), inflight) + 1
                   ELSE /\ ev'.kind = "rejected"
                        /\ rateLimiter' = rateLimiter
                        /\ inflight' = inflight
          /\ ev'.kind = "resolved"
             => cache'[HashOf[ev'.text]] = [data |-> ev'.value, timestamp |-> now]
         ]_vars

\* C19 as stated: of two calls with the same text, the second made while the first
\* awaits the backend, both are admitted
C19_BothAdmitted ==
    duo.n = 2 => duo.admitted = 2

\* both calls were admitted and counted, both backend calls have returned, with
\* different analyses, and the cache holds the one returned last
C19_Witness ==
    /\ duo.n = 2
    /\ duo.admitted = 2
    /\ Entry.count = duo.before + 2
    /\ duo.returned = 2
    /\ duo.first.data # duo.last.data
    /\ cache[HashOf[duo.text]].data = duo.last.data

(***************************************************************************)
(* C20: one invocation of analyzeCurrentPage leads to at most one          *)
(* admission by checkRateLimit, also when sendMessage times out and sends  *)
(* ANALYZE_CONTENT again: with a single click and no time passing in the   *)
(* limiter's window, the limiter counts at most one admission              *)
(***************************************************************************)
C20_OneAdmissionPerInvocation ==
    HasEntry => Entry.count <= 1

\* the first attempt of sendMessage has timed out while its request awaits the
\* backend; the request of the second attempt has been admitted as well
C20_Witness ==
    /\ popup.pc = "awaiting"
    /\ popup.attempt = 1
    /\ HasEntry
    /\ Entry.count = 2
    /\ BagCardinality(inflight) = 2
    /\ BagToSet(wire.responders) =
          {[call |-> CallRecord(TextHello), live |-> FALSE],
           [call |-> CallRecord(TextHello), live |-> TRUE]}

(***************************************************************************)
(* C21: when the content script has answered EXTRACT_CONTENT with success: *)
(* false, analyzeCurrentPage sends no ANALYZE_CONTENT message, stores      *)
(* nothing, and ends with an error and with state.analysis null.           *)
(* popup.data is UndefinedData, past the extraction, after such an answer. *)
(***************************************************************************)
C21_ExtractionFailureStops ==
    /\ \A request \in BagToSet(wire.requests) : request.data # UndefinedData
    /\ popup.data = UndefinedData
       => /\ popup.pc \notin {"sending", "awaiting", "storing"}
          /\ ~popup.wrote
          /\ (popup.pc = "idle" /\ popup.reply # NoReply)
             => (popup.error # Null /\ popup.analysis = Null)

\* after a failed extraction analyzeCurrentPage has sent ANALYZE_CONTENT without
\* data, taken the background's error reply for a result, stored undefined as the
\* analysis of the page, and ended without an error
C21_Witness ==
    /\ popup.pc = "idle"
    /\ popup.data = UndefinedData
    /\ popup.reply = [success |-> FALSE, error |-> TypeErrorMessage]
    /\ popup.error = Null
    /\ popup.analysis = Undefined
    /\ popup.wrote
    /\ storage = [analysis |-> Undefined, lastAnalyzedUrl |-> PageUrl]

(***************************************************************************)
(* C22: an ANALYZE_CONTENT message that the listener takes up is answered  *)
(* in that step if its call is a cache hit (success: true with the cached  *)
(* analysis) or is rejected or throws (success: false with the error);     *)
(* otherwise one suspended call stands for it and it is answered in the    *)
(* step in which that call's backend call returns (success: true with the  *)
(* analysis) or throws (success: false with the error). No other step      *)
(* answers. An answer reaches the popup if the attempt that sent the       *)
(* message still waits. The limiter changes and a backend call starts only *)
(* in a step that takes up an ANALYZE_CONTENT message.                     *)
(***************************************************************************)
C22_AnsweredOnce ==
    [][/\ \A request \in BagToSet(wire.requests) :
             wire'.requests = wire.requests (-) SetToBag({request})
             => CASE ev'.kind = "admitted" ->
                       /\ wire'.responders = wire.responders (+) SetToBag({
                             [call |-> CallRecord(ev'.text), live |-> request.live]})
                       /\ wire'.replies = wire.replies
                  [] ev'.kind = "hit" ->
                       /\ wire'.responders = wire.responders
                       /\ wire'.replies = IF request.live
                             THEN wire.replies \cup {[success |-> TRUE, analysis |-> ev'.value]}
                             ELSE wire.replies
                  [] ev'.kind \in {"rejected", "threw"} ->
                       /\ wire'.responders = wire.responders
                       /\ wire'.replies = IF request.live
                             THEN wire.replies \cup {[success |-> FALSE, error |-> ev'.value]}
                             ELSE wire.replies
                  [] OTHER -> FALSE
       /\ \A responder \in BagToSet(wire.responders) :
             wire'.responders = wire.responders (-) SetToBag({responder})
             => /\ wire'.requests = wire.requests
                /\ ev'.kind \in {"resolved", "failed"}
                /\ wire'.replies = IF ~responder.live THEN wire.replies
                      ELSE IF ev'.kind = "resolved"
                      THEN wire.replies \cup {[success |-> TRUE, analysis |-> ev'.value]}
                      ELSE wire.replies \cup {[success |-> FALSE, error |-> ev'.value]}
       /\ ~(wire'.replies \subseteq wire.replies)
          => BagCardinality(wire'.requests) + BagCardinality(wire'.responders)
                = BagCardinality(wire.requests) + BagCardinality(wire.responders) - 1
       /\ (rateLimiter' # rateLimiter \/ BagCardinality(inflight') > BagCardinality(inflight))
          => BagCardinality(wire'.requests) = BagCardinality(wire.requests) - 1
       /\ ev'.kind \in {"contentChanged", "ignored"}
          => (rateLimiter' = rateLimiter /\ inflight' = inflight)
      ]_vars

\* the re-sent message was answered from the cache, the first message by its
\* backend call; messages of other types have been received since
C22_Witness ==
    /\ ev.kind \in {"contentChanged", "ignored"}
    /\ popup.pc = "awaiting"
    /\ popup.attempt = 1
    /\ wire.requests = EmptyBag
    /\ wire.responders = EmptyBag
    /\ HasEntry
    /\ Entry.count = 1
    /\ wire.replies = {[success |-> TRUE, analysis |-> cache[HashOf[TextHello]].data]}

(***************************************************************************)
(* C23: a call of sendMessage or sendTabMessage begins at most retries + 1 *)
(* attempts; an attempt waits at most SEND_TIMEOUT ms; attempt k + 1       *)
(* begins 500 * (k + 1) ms after attempt k failed; once the call has       *)
(* returned or thrown it does nothing more, and a call that returned       *)
(* returned what its last attempt received; every call returns or throws.  *)
(***************************************************************************)
C23_BoundedRetries ==
    /\ [](/\ sender.attempts <= sender.retries + 1
          /\ sender.attempts \in {sender.attempt, sender.attempt + 1}
          /\ sender.pc = "racing" => now - sender.started <= SEND_TIMEOUT
          /\ (sender.pc = "racing" /\ sender.attempt > 0)
             => sender.started - sender.failedAt = 500 * sender.attempt
          /\ sender.pc = "returned" => sender.attempts = sender.attempt + 1)
    /\ [][/\ sender.pc \in {"returned", "threw"} => sender' = sender
          /\ sender'.attempts > sender.attempts
             => (sender.pc = "attempt" /\ sender.result = NoReply /\ sender.thrown = NoError)
          /\ sender'.result # sender.result
             => (sender.pc = "racing" /\ sender'.pc = "returned")]_vars
    /\ <>(sender.pc \in {"returned", "threw"})

\* two attempts timed out, the third was answered: the call has returned the answer,
\* 11500 ms after it began
C23_Witness ==
    /\ sender.pc = "returned"
    /\ sender.retries = 2
    /\ sender.attempts = 3
    /\ sender.sent = 3
    /\ sender.result = [success |-> TRUE]
    /\ sender.started = 2 * SEND_TIMEOUT + 500 + 1000
    /\ now = sender.started

(***************************************************************************)
(* C24: a chrome message is sent in exactly the attempts that begin with a *)
(* valid context; a call throws only from its last attempt, and it throws  *)
(* ExtensionContextError when the message of the error caught there        *)
(* contains 'Extension context invalidated', ContentScriptError when the   *)
(* call is sendTabMessage and it contains 'Receiving end does not exist',  *)
(* and otherwise the error caught.                                         *)
(***************************************************************************)
C24_FinalErrorOnly ==
    /\ sender.sent = sender.attempts - sender.invalid
    /\ sender.pc # "threw" => sender.thrown = NoError
    /\ sender.pc = "threw"
       => /\ sender.attempt = sender.retries
          /\ sender.attempts = sender.retries + 1
          /\ sender.thrown =
                CASE sender.error.message
                        \in {InvalidatedMessage, "Extension context invalidated."} ->
                       [class |-> "ExtensionContextError", message |-> ContextMessage]
                  [] sender.error.message = ReceivingEndMessage
                        /\ sender.fn = "sendTabMessage" ->
                       [class |-> "ContentScriptError", message |-> ContentScriptMessage]
                  [] OTHER -> sender.error

\* sendTabMessage has thrown ContentScriptError after its last attempt; an earlier
\* attempt found the context invalid and sent nothing
C24_Witness ==
    /\ sender.fn = "sendTabMessage"
    /\ sender.pc = "threw"
    /\ sender.retries = 2
    /\ sender.invalid = 1
    /\ sender.sent = 2
    /\ sender.error.message = ReceivingEndMessage
    /\ sender.thrown = [class |-> "ContentScriptError", message |-> ContentScriptMessage]

(***************************************************************************)
(* C25: while analyzeCurrentPage is under way state.loading is true and    *)
(* state.error is null; when no run is under way state.loading is false,   *)
(* however the last run ended; no message of a run is on its way before    *)
(* the run has set loading. A run starts only when none is under way, and  *)
(* the step that starts it sets loading, clears error and analysis and     *)
(* sends nothing.                                                          *)
(***************************************************************************)
C25_LoadingBracketsTheRun ==
    /\ [](/\ popup.pc # "idle" => (popup.loading /\ popup.error = Null)
          /\ popup.pc = "idle" => ~popup.loading
          /\ (popup.pc \in {"idle", "extracting"} /\ popup.reply = NoReply)
             => \A request \in BagToSet(wire.requests) : ~request.live)
    /\ [][(popup.pc # "extracting" /\ popup'.pc = "extracting")
          => (/\ popup.pc = "idle"
              /\ ~popup.loading
              /\ popup'.loading
              /\ popup'.error = Null
              /\ popup'.analysis = Null
              /\ wire' = wire)]_vars

\* a run has ended with a storage error after a successful analysis, the one before
\* it with a result: loading is false and the button is enabled again
C25_Witness ==
    /\ popup.pc = "idle"
    /\ ~popup.loading
    /\ popup.error = StorageErrorMessage
    /\ popup.reply \in {[success |-> TRUE, analysis |-> a] : a \in Analyses}
    /\ storage.lastAnalyzedUrl = PageUrl
    /\ ~popup.wrote

(***************************************************************************)
(* C26: when handleContentChange has run for a burst of mutation callbacks *)
(* (DEBOUNCE_DELAY ms after the last of them) and some batch of the burst  *)
(* held a childList mutation with added nodes, a CONTENT_CHANGED message   *)
(* has been sent, as long as destroy has not been called                   *)
(***************************************************************************)
C26_BurstNotified ==
    (script.loaded /\ script.observing /\ script.ran = 1 /\ script.burst)
    => script.sent = 1

\* a burst of two callbacks, the last batch significant: the handler has run
\* DEBOUNCE_DELAY ms after it and has sent CONTENT_CHANGED
C26_Witness ==
    /\ script.loaded
    /\ script.observing
    /\ script.nextId = 3
    /\ script.lastCallback > 0
    /\ script.lastCallback < DEBOUNCE_DELAY
    /\ script.burst
    /\ script.ran = 1
    /\ script.ranAt >= script.lastCallback + DEBOUNCE_DELAY
    /\ script.sent = 1

(***************************************************************************)
(* C27: the step that handles a CONTENT_CHANGED message leaves the cache,  *)
(* the limiter and the calls in flight as they were and answers            *)
(* success: true, and every text with a valid entry before it has one      *)
(* after it; an ANALYZE_CONTENT request received right after it whose text *)
(* has a valid entry is a cache hit, answered with the stored result, the  *)
(* limiter untouched                                                       *)
(***************************************************************************)
C27_ContentChangedKeepsCache ==
    [][/\ ev'.kind = "contentChanged"
          => (/\ cache' = cache
              /\ rateLimiter' = rateLimiter
              /\ inflight' = inflight
              /\ ev'.reply = [success |-> TRUE]
              /\ \A text \in pages : Valid(text) => Valid(text)')
       /\ ev.kind = "contentChanged"
          => \A request \in BagToSet(wire.requests) :
                (/\ wire'.requests = wire.requests (-) SetToBag({request})
                 /\ request.data # UndefinedData
                 /\ Valid(request.data.mainContent))
                => (/\ ev'.kind = "hit"
                    /\ ev'.value = cache[HashOf[request.data.mainContent]].data
                    /\ cache' = cache
                    /\ rateLimiter' = rateLimiter
                    /\ request.live
                       => [success |-> TRUE, analysis |-> ev'.value] \in wire'.replies)
      ]_vars

\* a CONTENT_CHANGED message has just been handled while the page's text has a valid
\* entry, the limiter has counted, and a live request for the same text is on its way
C27_Witness ==
    /\ ev.kind = "contentChanged"
    /\ ev.reply = [success |-> TRUE]
    /\ Valid(TextHello)
    /\ now > cache[HashOf[TextHello]].timestamp
    /\ rateLimiter # <<>>
    /\ \E request \in BagToSet(wire.requests) :
          /\ request.live
          /\ request.data # UndefinedData
          /\ request.data.mainContent = TextHello

(***************************************************************************)
(* C28: when two different texts x and y have the same content hash and    *)
(* the last cache-miss call with that hash to return was one with text x,  *)
(* less than CACHE_DURATION ms ago, a call with text y is a cache hit that *)
(* returns the analysis stored for x, starts no backend call and leaves    *)
(* the rate limiter (count and window start) and the cache as they were    *)
(***************************************************************************)
C28_CollisionServesFirstText ==
    [][\A x \in Texts, y \in Texts :
         (/\ x # y
          /\ HashOf[x] = HashOf[y]
          /\ stored.of[x].has
          /\ now - stored.of[x].at < CACHE_DURATION
          /\ CallOf(y))
         => (/\ ev'.kind = "hit"
             /\ ev'.value = stored.of[x].data
             /\ inflight' = inflight
             /\ rateLimiter' = rateLimiter
             /\ cache' = cache)]_vars

\* "BB" has been served the analysis stored for "Aa"; the limiter has counted one
\* admission
C28_Witness ==
    /\ ev.kind = "hit"
    /\ ev.text = TextBB
    /\ HashOf[TextAa] = HashOf[TextBB]
    /\ stored.of[TextAa].has
    /\ ~stored.of[TextBB].has
    /\ ev.value = stored.of[TextAa].data
    /\ HasEntry
    /\ Entry.count = 1
    /\ inflight = EmptyBag

(***************************************************************************)
(* C29: SecureAIService.analyzeContent outside development mode. With a    *)
(* backend URL configured the call never throws and asks only the backend, *)
(* without a key: when the fetch has failed (network error, non-OK status  *)
(* or unparsable body) the call has returned the simulated analysis. With  *)
(* no backend URL configured the call throws 'Backend URL not configured   *)
(* for production' and sends no request.                                   *)
(***************************************************************************)
C29_BackendFailureFallsBack ==
    (run.service = "SecureAIService" /\ run.env.NODE_ENV # "development")
    => IF Truthy(run.env.PLASMO_PUBLIC_API_URL)
       THEN /\ run.pc \in {"start", "backend", "returned"}
            /\ run.thrown = "none"
            /\ run.fetches \subseteq {[url |-> run.env.PLASMO_PUBLIC_API_URL, key |-> NoKey]}
            /\ run.failure # "none" => (run.pc = "returned" /\ run.result = "simulated")
            /\ run.pc = "returned" => run.result = IF run.failure = "none" THEN "fetched"
                                                   ELSE "simulated"
       ELSE /\ run.pc \in {"start", "threw"}
            /\ run.fetches = {}
            /\ run.failure = "none"
            /\ run.pc = "threw" => run.thrown = BackendUrlMessage

\* a production build with a backend URL: the body of the backend's response did not
\* parse, and the call has returned the simulated analysis
C29_Witness ==
    /\ run.service = "SecureAIService"
    /\ run.env.NODE_ENV = "production"
    /\ run.env.PLASMO_PUBLIC_API_URL = ProxyUrl
    /\ run.failure = "body"
    /\ run.pc = "returned"
    /\ run.result = "simulated"
    /\ run.thrown = "none"
    /\ run.fetches = {[url |-> ProxyUrl, key |-> NoKey]}

====
